---- MODULE Spec2Model ----
(***************************************************************************)
(* Model of convert_for_neo4j.py: the identifier derivation (slugify and   *)
(* the make_*_id helpers), the answer resolver (detect_correct_option) and *)
(* the ingest loop of main() that builds the node tables and edge          *)
(* collections of the graph.                                               *)
(*                                                                         *)
(* Text is a sequence of one-character strings, so that trimming, case     *)
(* mapping and the regular expressions of the source are computed          *)
(* character by character.  An optional value (a JSON field that may be    *)
(* missing or null) is a sequence of length at most one: None is << >>,    *)
(* a present value v is << v >>.                                           *)
(***************************************************************************)
EXTENDS Integers, Sequences, FiniteSets, TLC

(***************************************************************************)
(* Characters                                                              *)
(***************************************************************************)
UpperCase ==
  << "A","B","C","D","E","F","G","H","I","J","K","L","M",
     "N","O","P","Q","R","S","T","U","V","W","X","Y","Z" >>

LowerCase ==
  << "a","b","c","d","e","f","g","h","i","j","k","l","m",
     "n","o","p","q","r","s","t","u","v","w","x","y","z" >>

DigitChars == << "0","1","2","3","4","5","6","7","8","9" >>

Whitespace == { " ", "\t", "\n" }

Range(s) == { s[i] : i \in 1..Len(s) }

IndexOf(c, s) == CHOOSE i \in 1..Len(s) : s[i] = c

UpperSet == Range(UpperCase)
LowerSet == Range(LowerCase)
DigitSet == Range(DigitChars)

IsUpper(c) == c \in UpperSet
IsLower(c) == c \in LowerSet
IsDigit(c) == c \in DigitSet
IsAlnum(c) == IsUpper(c) \/ IsLower(c) \/ IsDigit(c)
IsWordChar(c) == IsAlnum(c) \/ c = "_"

\* the case mappings of the ASCII letters
ToUpper == [c \in LowerSet |-> UpperCase[IndexOf(c, LowerCase)]]
ToLower == [c \in UpperSet |-> LowerCase[IndexOf(c, UpperCase)]]

UpperChar(c) == IF IsLower(c) THEN ToUpper[c] ELSE c
LowerChar(c) == IF IsUpper(c) THEN ToLower[c] ELSE c

Upper(s) == [i \in 1..Len(s) |-> UpperChar(s[i])]
Lower(s) == [i \in 1..Len(s) |-> LowerChar(s[i])]

\* ord(letter) - ord("A") for an upper-case letter
LetterIndex(c) == IndexOf(c, UpperCase) - 1

DigitValue(c) == IndexOf(c, DigitChars) - 1

RECURSIVE ParseInt(_)
\* int(token) for a token of decimal digits
ParseInt(s) ==
  IF s = << >> THEN 0
  ELSE 10 * ParseInt(SubSeq(s, 1, Len(s) - 1)) + DigitValue(s[Len(s)])

RECURSIVE IntToStr(_)
\* str(n) for a natural number, as the f-strings format it
IntToStr(n) ==
  IF n < 10 THEN << DigitChars[n + 1] >>
  ELSE IntToStr(n \div 10) \o << DigitChars[(n % 10) + 1] >>

(***************************************************************************)
(* str.strip                                                               *)
(***************************************************************************)
RECURSIVE LStripSet(_, _)
LStripSet(s, cs) ==
  IF s # << >> /\ Head(s) \in cs THEN LStripSet(Tail(s), cs) ELSE s

RECURSIVE RStripSet(_, _)
RStripSet(s, cs) ==
  IF s # << >> /\ s[Len(s)] \in cs
  THEN RStripSet(SubSeq(s, 1, Len(s) - 1), cs)
  ELSE s

StripSet(s, cs) == RStripSet(LStripSet(s, cs), cs)

\* value.strip()
Strip(s) == StripSet(s, Whitespace)

(***************************************************************************)
(* Optional values and Python truthiness                                   *)
(***************************************************************************)
None == << >>
Some(v) == << v >>

\* (entry.get(key) or default) for a text field: None and "" are falsy
OrText(opt, default) ==
  IF opt = None \/ opt[1] = << >> THEN default ELSE opt[1]

\* (text or default)
TextOr(text, default) == IF text = << >> THEN default ELSE text

\* A JSON value that is not a string (a number, a list) is a sequence headed
\* by this tag, so that isinstance(value, str) can be decided
NotStrTag == "<not-str>"

\* isinstance(value, str)
IsStr(value) == value = << >> \/ value[1] # NotStrTag

\* truthiness of an optional integer: None and 0 are falsy
TruthyInt(opt) == opt # None /\ opt[1] # 0

(***************************************************************************)
(* slugify and the identifier helpers                                      *)
(***************************************************************************)
RECURSIVE SkipNonAlnum(_)
\* the rest of s after its leading run of non-alphanumeric characters
SkipNonAlnum(s) ==
  IF s # << >> /\ ~IsAlnum(Head(s)) THEN SkipNonAlnum(Tail(s)) ELSE s

RECURSIVE SubEachNonAlnum(_)
\* every non-alphanumeric character replaced by a hyphen of its own
SubEachNonAlnum(s) ==
  IF s = << >> THEN << >>
  ELSE << IF IsAlnum(Head(s)) THEN Head(s) ELSE "-" >> \o SubEachNonAlnum(Tail(s))

RECURSIVE SubNonAlnumRuns(_)
\* re.sub(r"[^0-9A-Za-z]+", "-", s)
SubNonAlnumRuns(s) ==
  IF s = << >> THEN << >>
  ELSE IF IsAlnum(Head(s)) THEN << Head(s) >> \o SubNonAlnumRuns(Tail(s))
  ELSE << "-" >> \o SubNonAlnumRuns(SkipNonAlnum(Tail(s)))

\* slugify without a fallback for an empty sanitized text
slugify_without_sentinel(value, prefix, upper) ==
  LET stripped == StripSet(SubNonAlnumRuns(Strip(value)), { "-" })
  IN  prefix \o (IF upper THEN Upper(stripped) ELSE stripped)

slugify(value, prefix, upper) ==
  LET stripped  == StripSet(SubNonAlnumRuns(Strip(value)), { "-" })
      sanitized == IF upper THEN Upper(stripped) ELSE stripped
  IN  IF prefix # << >>
      THEN IF sanitized # << >>
           THEN prefix \o sanitized
           ELSE RStripSet(prefix, { "-" })
      ELSE IF sanitized # << >> THEN sanitized
           ELSE << "U","N","S","P","E","C","I","F","I","E","D" >>

make_question_id(year, paper_code, question_no) ==
  LET base == IF TruthyInt(year)
              THEN << "Q","-" >> \o IntToStr(year[1]) \o << "-" >> \o paper_code
                     \o << "-" >> \o question_no
              ELSE << "Q","-" >> \o paper_code \o << "-" >> \o question_no
  IN  slugify(base, << >>, TRUE)

make_subject_id(name) == slugify(name, << "S","U","B","-" >>, TRUE)

make_chapter_id(name) == slugify(name, << "C","H","-" >>, TRUE)

make_subtopic_id(name) == slugify(name, << "S","T","-" >>, TRUE)

make_paper_id(year, paper_code) ==
  LET base == IF TruthyInt(year)
              THEN << "P","-" >> \o IntToStr(year[1]) \o << "-" >> \o paper_code
              ELSE << "P","-" >> \o paper_code
  IN  slugify(base, << >>, TRUE)

\* option ids numbered from 0
make_option_id_zero_based(question_id, index) ==
  question_id \o << "-","O","P","T","-" >> \o IntToStr(index)

make_option_id(question_id, index) ==
  question_id \o << "-","O","P","T","-" >> \o IntToStr(index + 1)

bool_to_str(value) == IF value THEN "true" ELSE "false"

(***************************************************************************)
(* Answer resolver                                                         *)
(***************************************************************************)
RECURSIVE CollapseWhitespace(_)
\* NORMALIZE_WHITESPACE.sub(" ", s): every run of whitespace becomes " "
CollapseWhitespace(s) ==
  IF s = << >> THEN << >>
  ELSE IF Head(s) \in Whitespace
       THEN << " " >> \o CollapseWhitespace(LStripSet(Tail(s), Whitespace))
       ELSE << Head(s) >> \o CollapseWhitespace(Tail(s))

normalize_text(value) == Lower(CollapseWhitespace(Strip(value)))

OptionWord == << "o","p","t","i","o","n" >>

\* (?:option\s*) under re.IGNORECASE matches at the start of s
HasOptionPrefix(s) ==
  Len(s) >= Len(OptionWord) /\ Lower(SubSeq(s, 1, Len(OptionWord))) = OptionWord

\* what follows the match of (?:option\s*) in s
AfterOptionPrefix(s) ==
  LStripSet(SubSeq(s, Len(OptionWord) + 1, Len(s)), Whitespace)

\* ([A-Z]) under re.IGNORECASE
IsOneLetter(s) == Len(s) = 1 /\ (IsUpper(s[1]) \/ IsLower(s[1]))

\* (\d+)
IsDigits(s) == s # << >> /\ \A i \in 1..Len(s) : IsDigit(s[i])

\* re.fullmatch(r"(?:option\s*)?([A-Z])", s, re.IGNORECASE): the captured
\* group as an optional value, None when the pattern does not match
FullMatchOptionLetter(s) ==
  IF HasOptionPrefix(s) /\ IsOneLetter(AfterOptionPrefix(s))
  THEN Some(AfterOptionPrefix(s))
  ELSE IF IsOneLetter(s) THEN Some(s)
  ELSE None

\* re.fullmatch(r"(?:option\s*)?(\d+)", s, re.IGNORECASE): the captured
\* group as an optional value, None when the pattern does not match
FullMatchOptionNumber(s) ==
  IF HasOptionPrefix(s) /\ IsDigits(AfterOptionPrefix(s))
  THEN Some(AfterOptionPrefix(s))
  ELSE IF IsDigits(s) THEN Some(s)
  ELSE None

\* re.findall(r"([A-D])", s)
LetterTokens(s) == SelectSeq(s, LAMBDA c : c \in { "A","B","C","D" })

\* \b at the gap in front of position k (1 <= k <= Len(s) + 1)
WordBoundary(s, k) ==
  LET before == k > 1 /\ IsWordChar(s[k - 1])
      after  == k <= Len(s) /\ IsWordChar(s[k])
  IN  before # after

RECURSIVE DigitRunEnd(_, _)
\* the last position of the run of digits that starts at position i
DigitRunEnd(s, i) ==
  IF i < Len(s) /\ IsDigit(s[i + 1]) THEN DigitRunEnd(s, i + 1) ELSE i

RECURSIVE DigitTokensFrom(_, _)
\* the matches of \b(\d+)\b found scanning s from position i, in order
DigitTokensFrom(s, i) ==
  IF i > Len(s) THEN << >>
  ELSE IF IsDigit(s[i]) /\ WordBoundary(s, i)
            /\ WordBoundary(s, DigitRunEnd(s, i) + 1)
       THEN << SubSeq(s, i, DigitRunEnd(s, i)) >>
              \o DigitTokensFrom(s, DigitRunEnd(s, i) + 1)
       ELSE DigitTokensFrom(s, i + 1)

\* re.findall(r"\b(\d+)\b", s)
DigitTokens(s) == DigitTokensFrom(s, 1)

\* step 1: the options whose normalized text equals the normalized answer
ExactMatches(opts, text) ==
  LET normalized_options == [i \in 1..Len(opts) |-> normalize_text(opts[i])]
      normalized_answer  == normalize_text(text)
  IN  { i - 1 : i \in { j \in 1..Len(opts) :
                          normalized_options[j] = normalized_answer } }

\* step 2 without the upper bound on the index
SingleLetterUnbounded(opts, text) ==
  LET option_letter_match == FullMatchOptionLetter(Strip(text))
      idx == LetterIndex(UpperChar(option_letter_match[1][1]))
  IN  IF option_letter_match # None /\ 0 <= idx THEN { idx } ELSE {}

\* step 2: "C" or "option C"; the empty set when the step returns nothing
SingleLetterIndices(opts, text) ==
  LET option_letter_match == FullMatchOptionLetter(Strip(text))
      idx == LetterIndex(UpperChar(option_letter_match[1][1]))
  IN  IF option_letter_match # None /\ 0 <= idx /\ idx < Len(opts)
      THEN { idx }
      ELSE {}

\* step 3 without the lower bound on the index
SingleNumberNoLowerBound(opts, text) ==
  LET numeric_match == FullMatchOptionNumber(Strip(text))
      idx == ParseInt(numeric_match[1]) - 1
  IN  IF numeric_match # None /\ idx < Len(opts) THEN { idx } ELSE {}

\* step 3: "2" or "option 2"; the empty set when the step returns nothing
SingleNumberIndices(opts, text) ==
  LET numeric_match == FullMatchOptionNumber(Strip(text))
      idx == ParseInt(numeric_match[1]) - 1
  IN  IF numeric_match # None /\ 0 <= idx /\ idx < Len(opts)
      THEN { idx }
      ELSE {}

\* step 4 without the test of the index against the number of options
MultiLetterUnbounded(opts, text) ==
  LET letter_tokens == LetterTokens(Upper(text))
  IN  { LetterIndex(letter_tokens[i]) : i \in 1..Len(letter_tokens) }

\* step 4: every letter A-D of the upper-cased answer
MultiLetterIndices(opts, text) ==
  LET letter_tokens == LetterTokens(Upper(text))
  IN  { LetterIndex(letter_tokens[i]) : i \in
          { j \in 1..Len(letter_tokens) :
              /\ 0 <= LetterIndex(letter_tokens[j])
              /\ LetterIndex(letter_tokens[j]) < Len(opts) } }

\* step 5 accepting the token 0
MultiNumberZeroAccepted(opts, text) ==
  LET digit_tokens == DigitTokens(text)
  IN  { ParseInt(digit_tokens[i]) - 1 : i \in
          { j \in 1..Len(digit_tokens) :
              /\ 0 <= ParseInt(digit_tokens[j])
              /\ ParseInt(digit_tokens[j]) <= Len(opts) } }

\* step 5: every standalone number of the answer
MultiNumberIndices(opts, text) ==
  LET digit_tokens == DigitTokens(text)
  IN  { ParseInt(digit_tokens[i]) - 1 : i \in
          { j \in 1..Len(digit_tokens) :
              /\ 0 < ParseInt(digit_tokens[j])
              /\ ParseInt(digit_tokens[j]) <= Len(opts) } }

\* the cascade with the single-letter step tried before the exact match
detect_letter_before_exact(opts, answer) ==
  IF opts = << >> \/ answer = None \/ ~IsStr(answer[1])
     \/ Strip(answer[1]) = << >>
  THEN {}
  ELSE
    LET text == answer[1]
    IN  IF SingleLetterIndices(opts, text) # {}
        THEN SingleLetterIndices(opts, text)
        ELSE IF ExactMatches(opts, text) # {} THEN ExactMatches(opts, text)
        ELSE IF SingleNumberIndices(opts, text) # {}
             THEN SingleNumberIndices(opts, text)
        ELSE IF MultiLetterIndices(opts, text) # {}
             THEN MultiLetterIndices(opts, text)
        ELSE MultiNumberIndices(opts, text)

\* the cascade without the test for a blank answer
detect_blank_not_checked(opts, answer) ==
  IF opts = << >> \/ answer = None \/ ~IsStr(answer[1]) THEN {}
  ELSE
    LET text == answer[1]
    IN  IF ExactMatches(opts, text) # {} THEN ExactMatches(opts, text)
        ELSE IF SingleLetterIndices(opts, text) # {}
             THEN SingleLetterIndices(opts, text)
        ELSE IF SingleNumberIndices(opts, text) # {}
             THEN SingleNumberIndices(opts, text)
        ELSE IF MultiLetterIndices(opts, text) # {}
             THEN MultiLetterIndices(opts, text)
        ELSE MultiNumberIndices(opts, text)

detect_correct_option(opts, answer) ==
  IF opts = << >> \/ answer = None \/ ~IsStr(answer[1])
     \/ Strip(answer[1]) = << >>
  THEN {}
  ELSE
    LET text == answer[1]
    IN  IF ExactMatches(opts, text) # {} THEN ExactMatches(opts, text)
        ELSE IF SingleLetterIndices(opts, text) # {}
             THEN SingleLetterIndices(opts, text)
        ELSE IF SingleNumberIndices(opts, text) # {}
             THEN SingleNumberIndices(opts, text)
        ELSE IF MultiLetterIndices(opts, text) # {}
             THEN MultiLetterIndices(opts, text)
        ELSE MultiNumberIndices(opts, text)

(***************************************************************************)
(* Label normalization and the title parser (data scrap/temp.py)           *)
(***************************************************************************)
RECURSIVE TitleFrom(_, _)
\* str.title() from a position whose previous character is cased or not:
\* a letter after a letter is lower-cased, any other letter upper-cased
TitleFrom(s, prevCased) ==
  IF s = << >> THEN << >>
  ELSE LET c == Head(s)
           cased == IsUpper(c) \/ IsLower(c)
       IN  << IF ~cased THEN c
              ELSE IF prevCased THEN LowerChar(c) ELSE UpperChar(c) >>
             \o TitleFrom(Tail(s), cased)

\* s.title()
TitleCase(s) == TitleFrom(s, FALSE)

\* s.startswith(p)
StartsWith(s, p) == Len(s) >= Len(p) /\ SubSeq(s, 1, Len(p)) = p

Text_Question == << "Q","u","e","s","t","i","o","n" >>
Text_SetSpace == << "S","e","t"," " >>

\* re.match(r'^Question\s+\d+$', s)
MatchesQuestionNumber(s) ==
  /\ StartsWith(s, Text_Question)
  /\ LET rest == SubSeq(s, Len(Text_Question) + 1, Len(s))
         tail == LStripSet(rest, Whitespace)
     IN  Len(tail) < Len(rest) /\ IsDigits(tail)

subject_mappings ==
  {
    << <<"O","p","e","r","a","t","i","n","g"," ","S","y","s","t","e","m">>,
       <<"O","p","e","r","a","t","i","n","g"," ","S","y","s","t","e","m">> >>,
    << <<"O","p","e","r","a","t","i","n","g"," ","S","y","s","t","e","m","s">>,
       <<"O","p","e","r","a","t","i","n","g"," ","S","y","s","t","e","m">> >>,
    << <<"C","o","s">>,
       <<"O","p","e","r","a","t","i","n","g"," ","S","y","s","t","e","m">> >>,
    << <<"D","b","m","s">>,
       <<"D","a","t","a","b","a","s","e"," ","M","a","n","a","g","e","m","e","n","t"," ","S","y","s","t","e","m">> >>,
    << <<"D","a","t","a","b","a","s","e","s">>,
       <<"D","a","t","a","b","a","s","e"," ","M","a","n","a","g","e","m","e","n","t"," ","S","y","s","t","e","m">> >>,
    << <<"D","a","t","a","b","a","s","e">>,
       <<"D","a","t","a","b","a","s","e"," ","M","a","n","a","g","e","m","e","n","t"," ","S","y","s","t","e","m">> >>,
    << <<"A","l","g","o","r","i","t","h","m">>,
       <<"A","l","g","o","r","i","t","h","m","s">> >>,
    << <<"A","l","g","o","r","i","t","h","m","s">>,
       <<"A","l","g","o","r","i","t","h","m","s">> >>,
    << <<"D","a","t","a"," ","S","t","r","u","c","t","u","r","e">>,
       <<"D","a","t","a"," ","S","t","r","u","c","t","u","r","e","s">> >>,
    << <<"D","a","t","a"," ","S","t","r","u","c","t","u","r","e","s">>,
       <<"D","a","t","a"," ","S","t","r","u","c","t","u","r","e","s">> >>,
    << <<"C","o","m","p","u","t","e","r"," ","N","e","t","w","o","r","k">>,
       <<"C","o","m","p","u","t","e","r"," ","N","e","t","w","o","r","k","s">> >>,
    << <<"C","o","m","p","u","t","e","r"," ","N","e","t","w","o","r","k","s">>,
       <<"C","o","m","p","u","t","e","r"," ","N","e","t","w","o","r","k","s">> >>,
    << <<"C","o","m","p","u","t","e"," ","N","e","t","w","o","r","k","s">>,
       <<"C","o","m","p","u","t","e","r"," ","N","e","t","w","o","r","k","s">> >>,
    << <<"E","n","g","i","n","e","e","r","i","n","g"," ","M","a","t","h","s">>,
       <<"E","n","g","i","n","e","e","r","i","n","g"," ","M","a","t","h","e","m","a","t","i","c","s">> >>,
    << <<"E","n","g","i","n","e","e","r","i","n","g"," ","M","a","t","h","e","m","a","t","i","c","s">>,
       <<"E","n","g","i","n","e","e","r","i","n","g"," ","M","a","t","h","e","m","a","t","i","c","s">> >>,
    << <<"E","n","g","i","n","e","e","r","i","n","g"," "," ","M","a","t","h","e","m","a","t","i","c","s">>,
       <<"E","n","g","i","n","e","e","r","i","n","g"," ","M","a","t","h","e","m","a","t","i","c","s">> >>,
    << <<"E","n","g","i","n","e","e","r","i","n","g"," "," ","M","a","t","h","s">>,
       <<"E","n","g","i","n","e","e","r","i","n","g"," ","M","a","t","h","e","m","a","t","i","c","s">> >>,
    << <<"E","n","g","i","n","e","e","r","i","n","g"," ","M","a","t","h","e","m","a","t","i","c">>,
       <<"E","n","g","i","n","e","e","r","i","n","g"," ","M","a","t","h","e","m","a","t","i","c","s">> >>,
    << <<"D","i","s","c","r","e","t","e"," ","M","a","t","h","s">>,
       <<"D","i","s","c","r","e","t","e"," ","M","a","t","h","e","m","a","t","i","c","s">> >>,
    << <<"D","i","s","c","r","e","t","e"," ","M","a","t","h","e","m","a","t","i","c","s">>,
       <<"D","i","s","c","r","e","t","e"," ","M","a","t","h","e","m","a","t","i","c","s">> >>,
    << <<"D","i","s","c","r","e","t","e"," "," ","M","a","t","h","s">>,
       <<"D","i","s","c","r","e","t","e"," ","M","a","t","h","e","m","a","t","i","c","s">> >>,
    << <<"T","o","c">>,
       <<"T","h","e","o","r","y"," ","O","f"," ","C","o","m","p","u","t","a","t","i","o","n">> >>,
    << <<"T","h","e","o","r","y"," ","O","f"," ","C","o","m","p","u","t","a","t","i","o","n">>,
       <<"T","h","e","o","r","y"," ","O","f"," ","C","o","m","p","u","t","a","t","i","o","n">> >>,
    << <<"C","o","a">>,
       <<"C","o","m","p","u","t","e","r"," ","O","r","g","a","n","i","z","a","t","i","o","n"," ","A","n","d"," ","A","r","c","h","i","t","e","c","t","u","r","e">> >>,
    << <<"C","o","m","p","i","l","e","r"," ","D","e","s","i","g","n">>,
       <<"C","o","m","p","i","l","e","r"," ","D","e","s","i","g","n">> >>,
    << <<"D","i","g","i","t","a","l"," ","L","o","g","i","c">>,
       <<"D","i","g","i","t","a","l"," ","L","o","g","i","c">> >>,
    << <<"C"," ","P","r","o","g","r","a","m","m","i","n","g">>,
       <<"C"," ","P","r","o","g","r","a","m","m","i","n","g">> >>,
    << <<"C","-","P","r","o","g","r","a","m","m","i","n","g">>,
       <<"C"," ","P","r","o","g","r","a","m","m","i","n","g">> >>,
    << <<"C"," ","P","r","o","g","r","a","m","m","i","n","g"," ","L","o","o","p","s"," ","&"," ","C","o","n","d","i","t","i","o","n","a","l","s">>,
       <<"C"," ","P","r","o","g","r","a","m","m","i","n","g">> >>,
    << <<"A","p","t","i","t","u","d","e">>,
       <<"A","p","t","i","t","u","d","e">> >>,
    << <<"Q","u","a","n","t","i","t","a","t","i","v","e"," ","A","p","t","i","t","u","d","e">>,
       <<"Q","u","a","n","t","i","t","a","t","i","v","e"," ","A","p","t","i","t","u","d","e">> >>,
    << <<"Q","u","a","n","t","a","t","i","v","e"," ","A","p","t","i","t","u","d","e">>,
       <<"Q","u","a","n","t","i","t","a","t","i","v","e"," ","A","p","t","i","t","u","d","e">> >>,
    << <<"L","o","g","i","c","a","l"," ","A","p","t","i","t","u","d","e">>,
       <<"L","o","g","i","c","a","l"," ","A","p","t","i","t","u","d","e">> >>,
    << <<"V","e","r","b","a","l"," ","A","p","t","i","t","u","d","e">>,
       <<"V","e","r","b","a","l"," ","A","p","t","i","t","u","d","e">> >>,
    << <<"S","p","a","t","i","a","l"," ","A","p","t","i","t","u","d","e">>,
       <<"S","p","a","t","i","a","l"," ","A","p","t","i","t","u","d","e">> >>,
    << <<"P","r","o","b","a","b","i","l","i","t","y"," ","A","n","d"," ","S","t","a","t","i","s","t","i","c","s">>,
       <<"P","r","o","b","a","b","i","l","i","t","y"," ","A","n","d"," ","S","t","a","t","i","s","t","i","c","s">> >>,
    << <<"P","r","o","b","a","b","i","l","i","t","y"," "," ","A","n","d"," ","S","t","a","t","i","s","t","i","c","s">>,
       <<"P","r","o","b","a","b","i","l","i","t","y"," ","A","n","d"," ","S","t","a","t","i","s","t","i","c","s">> >>,
    << <<"S","o","f","t","w","a","r","e"," ","E","n","g","i","n","e","e","r","i","n","g">>,
       <<"S","o","f","t","w","a","r","e"," ","E","n","g","i","n","e","e","r","i","n","g">> >>,
    << <<"M","i","s","c","e","l","l","a","n","e","o","u","s">>,
       <<"M","i","s","c","e","l","l","a","n","e","o","u","s">> >>,
    << <<"M","i","s","c","e","a","l","l","a","n","e","o","u","s">>,
       <<"M","i","s","c","e","l","l","a","n","e","o","u","s">> >>,
    << <<"M","a","c","h","i","n","e"," ","L","e","a","r","n","i","n","g">>,
       <<"M","a","c","h","i","n","e"," ","L","e","a","r","n","i","n","g">> >>,
    << <<"A","r","t","i","f","i","c","i","a","l"," ","I","n","t","e","l","l","i","g","e","n","c","e">>,
       <<"A","r","t","i","f","i","c","i","a","l"," ","I","n","t","e","l","l","i","g","e","n","c","e">> >>,
    << <<"L","i","n","e","a","r"," ","A","l","g","e","b","r","a">>,
       <<"L","i","n","e","a","r"," ","A","l","g","e","b","r","a">> >>,
    << <<"C","a","l","c","u","l","u","s">>,
       <<"C","a","l","c","u","l","u","s">> >>,
    << <<"P","y","t","h","o","n">>,
       <<"P","y","t","h","o","n">> >>,
    << <<"P","r","o","g","r","a","m","m","i","n","g">>,
       <<"P","r","o","g","r","a","m","m","i","n","g">> >>,
    << <<"N","u","m","b","e","r"," ","S","y","s","t","e","m">>,
       <<"N","u","m","b","e","r"," ","S","y","s","t","e","m">> >> }

chapter_mappings ==
  {
    << <<"R","e","l","a","t","i","o","n","a","l"," ","A","l","g","e","b","r","a">>,
       <<"R","e","l","a","t","i","o","n","a","l"," ","A","l","g","e","b","r","a">> >>,
    << <<"R","e","l","a","t","i","o","n","a","l"," ","A","l","g","b","e","b","r","a">>,
       <<"R","e","l","a","t","i","o","n","a","l"," ","A","l","g","e","b","r","a">> >>,
    << <<"S","y","n","c","h","r","o","n","i","z","a","t","i","o","n">>,
       <<"S","y","n","c","h","r","o","n","i","z","a","t","i","o","n">> >>,
    << <<"S","y","n","c","h","r","o","n","i","s","a","t","i","o","n">>,
       <<"S","y","n","c","h","r","o","n","i","z","a","t","i","o","n">> >>,
    << <<"C","o","n","c","u","r","r","e","n","c","y"," ","&"," ","S","y","n","c","h","r","o","n","i","s","a","t","i","o","n">>,
       <<"C","o","n","c","u","r","r","e","n","c","y"," ","&"," ","S","y","n","c","h","r","o","n","i","z","a","t","i","o","n">> >>,
    << <<"C","o","n","c","u","r","r","e","n","c","y"," ","&"," ","S","y","n","c","h","r","o","n","i","z","a","t","i","o","n">>,
       <<"C","o","n","c","u","r","r","e","n","c","y"," ","&"," ","S","y","n","c","h","r","o","n","i","z","a","t","i","o","n">> >>,
    << <<"R","e","g","u","l","a","r"," ","E","x","p","r","e","s","s","i","o","n">>,
       <<"R","e","g","u","l","a","r"," ","E","x","p","r","e","s","s","i","o","n">> >>,
    << <<"R","e","g","u","l","a","r"," ","E","x","p","r","e","s","s","i","o","n","s">>,
       <<"R","e","g","u","l","a","r"," ","E","x","p","r","e","s","s","i","o","n">> >>,
    << <<"R","e","g","u","l","a","r"," ","E","x","p","r","e","s","s","i","o","n"," ","&"," ","L","a","n","g","u","a","g","e","s">>,
       <<"R","e","g","u","l","a","r"," ","E","x","p","r","e","s","s","i","o","n"," ","&"," ","L","a","n","g","u","a","g","e","s">> >>,
    << <<"N","o","r","m","a","l","i","z","a","t","i","o","n">>,
       <<"N","o","r","m","a","l","i","z","a","t","i","o","n">> >>,
    << <<"N","o","r","m","a","l","i","s","a","t","i","o","n">>,
       <<"N","o","r","m","a","l","i","z","a","t","i","o","n">> >>,
    << <<"P","i","p","e","l","i","n","i","n","g">>,
       <<"P","i","p","e","l","i","n","i","n","g">> >>,
    << <<"P","i","p","e","l","i","n","e">>,
       <<"P","i","p","e","l","i","n","i","n","g">> >>,
    << <<"H","a","s","h","i","n","g">>,
       <<"H","a","s","h","i","n","g">> >>,
    << <<"H","a","s","h">>,
       <<"H","a","s","h","i","n","g">> >>,
    << <<"S","o","r","t","i","n","g">>,
       <<"S","o","r","t","i","n","g">> >>,
    << <<"S","o","r","t">>,
       <<"S","o","r","t","i","n","g">> >>,
    << <<"S","e","a","r","c","h","i","n","g">>,
       <<"S","e","a","r","c","h","i","n","g">> >>,
    << <<"S","e","a","r","c","h">>,
       <<"S","e","a","r","c","h","i","n","g">> >>,
    << <<"T","r","e","e","s">>,
       <<"T","r","e","e","s">> >>,
    << <<"T","r","e","e">>,
       <<"T","r","e","e","s">> >>,
    << <<"B","i","n","a","r","y"," ","T","r","e","e","s">>,
       <<"B","i","n","a","r","y"," ","T","r","e","e","s">> >>,
    << <<"B","i","n","a","r","y"," ","T","r","e","e">>,
       <<"B","i","n","a","r","y"," ","T","r","e","e","s">> >>,
    << <<"B","i","n","a","r","y"," ","S","e","a","r","c","h"," ","T","r","e","e","s">>,
       <<"B","i","n","a","r","y"," ","S","e","a","r","c","h"," ","T","r","e","e","s">> >>,
    << <<"B","i","n","a","r","y"," ","S","e","a","r","c","h"," ","T","r","e","e">>,
       <<"B","i","n","a","r","y"," ","S","e","a","r","c","h"," ","T","r","e","e","s">> >>,
    << <<"G","r","a","p","h","s">>,
       <<"G","r","a","p","h","s">> >>,
    << <<"G","r","a","p","h">>,
       <<"G","r","a","p","h","s">> >>,
    << <<"G","r","a","p","h"," ","T","h","e","o","r","y">>,
       <<"G","r","a","p","h"," ","T","h","e","o","r","y">> >>,
    << <<"L","i","n","k","e","d"," ","L","i","s","t">>,
       <<"L","i","n","k","e","d"," ","L","i","s","t">> >>,
    << <<"L","i","n","k","e","d"," ","L","i","s","t","s">>,
       <<"L","i","n","k","e","d"," ","L","i","s","t">> >>,
    << <<"S","t","a","c","k">>,
       <<"S","t","a","c","k">> >>,
    << <<"S","t","a","c","k","s">>,
       <<"S","t","a","c","k">> >>,
    << <<"Q","u","e","u","e">>,
       <<"Q","u","e","u","e">> >>,
    << <<"Q","u","e","u","e","s">>,
       <<"Q","u","e","u","e">> >>,
    << <<"H","e","a","p">>,
       <<"H","e","a","p">> >>,
    << <<"H","e","a","p","s">>,
       <<"H","e","a","p">> >>,
    << <<"R","e","c","u","r","s","i","o","n">>,
       <<"R","e","c","u","r","s","i","o","n">> >>,
    << <<"R","e","c","u","r","s","i","v","e">>,
       <<"R","e","c","u","r","s","i","o","n">> >>,
    << <<"D","y","n","a","m","i","c"," ","P","r","o","g","r","a","m","m","i","n","g">>,
       <<"D","y","n","a","m","i","c"," ","P","r","o","g","r","a","m","m","i","n","g">> >>,
    << <<"D","p">>,
       <<"D","y","n","a","m","i","c"," ","P","r","o","g","r","a","m","m","i","n","g">> >>,
    << <<"G","r","e","e","d","y">>,
       <<"G","r","e","e","d","y">> >>,
    << <<"G","r","e","e","d","y"," ","A","l","g","o","r","i","t","h","m">>,
       <<"G","r","e","e","d","y">> >>,
    << <<"G","r","e","e","d","y"," ","A","l","g","o","r","i","t","h","m","s">>,
       <<"G","r","e","e","d","y">> >>,
    << <<"D","i","v","i","d","e"," ","A","n","d"," ","C","o","n","q","u","e","r">>,
       <<"D","i","v","i","d","e"," ","A","n","d"," ","C","o","n","q","u","e","r">> >>,
    << <<"D","i","v","i","d","e"," ","&"," ","C","o","n","q","u","e","r">>,
       <<"D","i","v","i","d","e"," ","A","n","d"," ","C","o","n","q","u","e","r">> >>,
    << <<"C","o","m","p","l","e","x","i","t","y">>,
       <<"C","o","m","p","l","e","x","i","t","y"," ","A","n","a","l","y","s","i","s">> >>,
    << <<"C","o","m","p","l","e","x","i","t","y"," ","A","n","a","l","y","s","i","s">>,
       <<"C","o","m","p","l","e","x","i","t","y"," ","A","n","a","l","y","s","i","s">> >>,
    << <<"T","i","m","e"," ","C","o","m","p","l","e","x","i","t","y">>,
       <<"T","i","m","e"," ","C","o","m","p","l","e","x","i","t","y">> >>,
    << <<"S","p","a","c","e"," ","C","o","m","p","l","e","x","i","t","y">>,
       <<"S","p","a","c","e"," ","C","o","m","p","l","e","x","i","t","y">> >>,
    << <<"M","e","m","o","r","y">>,
       <<"M","e","m","o","r","y"," ","M","a","n","a","g","e","m","e","n","t">> >>,
    << <<"M","e","m","o","r","y"," ","M","a","n","a","g","e","m","e","n","t">>,
       <<"M","e","m","o","r","y"," ","M","a","n","a","g","e","m","e","n","t">> >>,
    << <<"C","a","c","h","e">>,
       <<"C","a","c","h","e"," ","M","e","m","o","r","y">> >>,
    << <<"C","a","c","h","e"," ","M","e","m","o","r","y">>,
       <<"C","a","c","h","e"," ","M","e","m","o","r","y">> >>,
    << <<"P","r","o","c","e","s","s">>,
       <<"P","r","o","c","e","s","s">> >>,
    << <<"P","r","o","c","e","s","s","e","s">>,
       <<"P","r","o","c","e","s","s">> >>,
    << <<"P","r","o","c","e","s","s"," ","M","a","n","a","g","e","m","e","n","t">>,
       <<"P","r","o","c","e","s","s"," ","M","a","n","a","g","e","m","e","n","t">> >>,
    << <<"T","h","r","e","a","d">>,
       <<"T","h","r","e","a","d">> >>,
    << <<"T","h","r","e","a","d","s">>,
       <<"T","h","r","e","a","d">> >>,
    << <<"T","h","r","e","a","d","i","n","g">>,
       <<"T","h","r","e","a","d">> >>,
    << <<"D","e","a","d","l","o","c","k">>,
       <<"D","e","a","d","l","o","c","k">> >>,
    << <<"D","e","a","d","l","o","c","k","s">>,
       <<"D","e","a","d","l","o","c","k">> >>,
    << <<"S","c","h","e","d","u","l","i","n","g">>,
       <<"S","c","h","e","d","u","l","i","n","g">> >>,
    << <<"C","p","u"," ","S","c","h","e","d","u","l","i","n","g">>,
       <<"C","P","U"," ","S","c","h","e","d","u","l","i","n","g">> >>,
    << <<"P","r","o","c","e","s","s"," ","S","c","h","e","d","u","l","i","n","g">>,
       <<"P","r","o","c","e","s","s"," ","S","c","h","e","d","u","l","i","n","g">> >>,
    << <<"F","i","l","e"," ","S","y","s","t","e","m">>,
       <<"F","i","l","e"," ","S","y","s","t","e","m">> >>,
    << <<"F","i","l","e"," ","S","y","s","t","e","m","s">>,
       <<"F","i","l","e"," ","S","y","s","t","e","m">> >>,
    << <<"S","q","l">>,
       <<"S","Q","L">> >>,
    << <<"E","r"," ","M","o","d","e","l">>,
       <<"E","R"," ","M","o","d","e","l">> >>,
    << <<"E","-","R"," ","M","o","d","e","l">>,
       <<"E","R"," ","M","o","d","e","l">> >>,
    << <<"T","r","a","n","s","a","c","t","i","o","n">>,
       <<"T","r","a","n","s","a","c","t","i","o","n">> >>,
    << <<"T","r","a","n","s","a","c","t","i","o","n","s">>,
       <<"T","r","a","n","s","a","c","t","i","o","n">> >>,
    << <<"C","o","n","c","u","r","r","e","n","c","y">>,
       <<"C","o","n","c","u","r","r","e","n","c","y"," ","C","o","n","t","r","o","l">> >>,
    << <<"C","o","n","c","u","r","r","e","n","c","y"," ","C","o","n","t","r","o","l">>,
       <<"C","o","n","c","u","r","r","e","n","c","y"," ","C","o","n","t","r","o","l">> >>,
    << <<"I","n","d","e","x","i","n","g">>,
       <<"I","n","d","e","x","i","n","g">> >>,
    << <<"I","n","d","e","x">>,
       <<"I","n","d","e","x","i","n","g">> >>,
    << <<"N","e","t","w","o","r","k"," ","L","a","y","e","r">>,
       <<"N","e","t","w","o","r","k"," ","L","a","y","e","r">> >>,
    << <<"N","e","t","w","o","r","k">>,
       <<"N","e","t","w","o","r","k"," ","L","a","y","e","r">> >>,
    << <<"T","r","a","n","s","p","o","r","t"," ","L","a","y","e","r">>,
       <<"T","r","a","n","s","p","o","r","t"," ","L","a","y","e","r">> >>,
    << <<"T","r","a","n","s","p","o","r","t">>,
       <<"T","r","a","n","s","p","o","r","t"," ","L","a","y","e","r">> >>,
    << <<"A","p","p","l","i","c","a","t","i","o","n"," ","L","a","y","e","r">>,
       <<"A","p","p","l","i","c","a","t","i","o","n"," ","L","a","y","e","r">> >>,
    << <<"A","p","p","l","i","c","a","t","i","o","n">>,
       <<"A","p","p","l","i","c","a","t","i","o","n"," ","L","a","y","e","r">> >>,
    << <<"D","a","t","a"," ","L","i","n","k"," ","L","a","y","e","r">>,
       <<"D","a","t","a"," ","L","i","n","k"," ","L","a","y","e","r">> >>,
    << <<"D","a","t","a","l","i","n","k"," ","L","a","y","e","r">>,
       <<"D","a","t","a"," ","L","i","n","k"," ","L","a","y","e","r">> >>,
    << <<"P","h","y","s","i","c","a","l"," ","L","a","y","e","r">>,
       <<"P","h","y","s","i","c","a","l"," ","L","a","y","e","r">> >>,
    << <<"T","c","p">>,
       <<"T","C","P">> >>,
    << <<"T","c","p","/","I","p">>,
       <<"T","C","P","/","I","P">> >>,
    << <<"U","d","p">>,
       <<"U","D","P">> >>,
    << <<"I","p">>,
       <<"I","P">> >>,
    << <<"I","p","v","4">>,
       <<"I","P","v","4">> >>,
    << <<"I","p","v","6">>,
       <<"I","P","v","6">> >>,
    << <<"I","p"," ","H","e","a","d","e","r">>,
       <<"I","P"," ","H","e","a","d","e","r">> >>,
    << <<"R","o","u","t","i","n","g">>,
       <<"R","o","u","t","i","n","g">> >>,
    << <<"R","o","u","t","i","n","g"," ","A","l","g","o","r","i","t","h","m">>,
       <<"R","o","u","t","i","n","g">> >>,
    << <<"R","o","u","t","i","n","g"," ","A","l","g","o","r","i","t","h","m","s">>,
       <<"R","o","u","t","i","n","g">> >>,
    << <<"R","o","u","t","i","n","g"," ","P","r","o","t","o","c","o","l">>,
       <<"R","o","u","t","i","n","g"," ","P","r","o","t","o","c","o","l">> >>,
    << <<"S","u","b","n","e","t","t","i","n","g">>,
       <<"S","u","b","n","e","t","t","i","n","g">> >>,
    << <<"S","u","b","n","e","t">>,
       <<"S","u","b","n","e","t","t","i","n","g">> >>,
    << <<"F","i","n","i","t","e"," ","A","u","t","o","m","a","t","a">>,
       <<"F","i","n","i","t","e"," ","A","u","t","o","m","a","t","a">> >>,
    << <<"F","i","n","i","t","e"," ","A","u","t","o","m","a","t","o","n">>,
       <<"F","i","n","i","t","e"," ","A","u","t","o","m","a","t","a">> >>,
    << <<"C","o","n","t","e","x","t"," ","F","r","e","e"," ","G","r","a","m","m","a","r">>,
       <<"C","o","n","t","e","x","t"," ","F","r","e","e"," ","G","r","a","m","m","a","r">> >>,
    << <<"C","f","g">>,
       <<"C","o","n","t","e","x","t"," ","F","r","e","e"," ","G","r","a","m","m","a","r">> >>,
    << <<"T","u","r","i","n","g"," ","M","a","c","h","i","n","e">>,
       <<"T","u","r","i","n","g"," ","M","a","c","h","i","n","e">> >>,
    << <<"T","u","r","i","n","g"," ","M","a","c","h","i","n","e","s">>,
       <<"T","u","r","i","n","g"," ","M","a","c","h","i","n","e">> >>,
    << <<"P","u","s","h","d","o","w","n"," ","A","u","t","o","m","a","t","a">>,
       <<"P","u","s","h","d","o","w","n"," ","A","u","t","o","m","a","t","a">> >>,
    << <<"P","d","a">>,
       <<"P","u","s","h","d","o","w","n"," ","A","u","t","o","m","a","t","a">> >>,
    << <<"D","e","c","i","d","a","b","i","l","i","t","y">>,
       <<"D","e","c","i","d","a","b","i","l","i","t","y">> >>,
    << <<"U","n","d","e","c","i","d","a","b","i","l","i","t","y">>,
       <<"U","n","d","e","c","i","d","a","b","i","l","i","t","y">> >>,
    << <<"L","e","x","i","c","a","l"," ","A","n","a","l","y","s","i","s">>,
       <<"L","e","x","i","c","a","l"," ","A","n","a","l","y","s","i","s">> >>,
    << <<"L","e","x","i","c","a","l"," ","A","n","a","l","y","z","e","r">>,
       <<"L","e","x","i","c","a","l"," ","A","n","a","l","y","s","i","s">> >>,
    << <<"S","y","n","t","a","x"," ","A","n","a","l","y","s","i","s">>,
       <<"S","y","n","t","a","x"," ","A","n","a","l","y","s","i","s">> >>,
    << <<"P","a","r","s","i","n","g">>,
       <<"S","y","n","t","a","x"," ","A","n","a","l","y","s","i","s">> >>,
    << <<"P","a","r","s","e","r">>,
       <<"S","y","n","t","a","x"," ","A","n","a","l","y","s","i","s">> >>,
    << <<"S","e","m","a","n","t","i","c"," ","A","n","a","l","y","s","i","s">>,
       <<"S","e","m","a","n","t","i","c"," ","A","n","a","l","y","s","i","s">> >>,
    << <<"C","o","d","e"," ","G","e","n","e","r","a","t","i","o","n">>,
       <<"C","o","d","e"," ","G","e","n","e","r","a","t","i","o","n">> >>,
    << <<"C","o","d","e"," ","O","p","t","i","m","i","z","a","t","i","o","n">>,
       <<"C","o","d","e"," ","O","p","t","i","m","i","z","a","t","i","o","n">> >>,
    << <<"O","p","t","i","m","i","z","a","t","i","o","n">>,
       <<"C","o","d","e"," ","O","p","t","i","m","i","z","a","t","i","o","n">> >>,
    << <<"B","o","o","l","e","a","n"," ","A","l","g","e","b","r","a">>,
       <<"B","o","o","l","e","a","n"," ","A","l","g","e","b","r","a">> >>,
    << <<"C","o","m","b","i","n","a","t","i","o","n","a","l"," ","C","i","r","c","u","i","t">>,
       <<"C","o","m","b","i","n","a","t","i","o","n","a","l"," ","C","i","r","c","u","i","t">> >>,
    << <<"C","o","m","b","i","n","a","t","i","o","n","a","l"," ","C","i","r","c","u","i","t","s">>,
       <<"C","o","m","b","i","n","a","t","i","o","n","a","l"," ","C","i","r","c","u","i","t">> >>,
    << <<"C","o","m","b","i","n","a","t","i","o","n","a","l"," ","L","o","g","i","c">>,
       <<"C","o","m","b","i","n","a","t","i","o","n","a","l"," ","C","i","r","c","u","i","t">> >>,
    << <<"S","e","q","u","e","n","t","i","a","l"," ","C","i","r","c","u","i","t">>,
       <<"S","e","q","u","e","n","t","i","a","l"," ","C","i","r","c","u","i","t">> >>,
    << <<"S","e","q","u","e","n","t","i","a","l"," ","C","i","r","c","u","i","t","s">>,
       <<"S","e","q","u","e","n","t","i","a","l"," ","C","i","r","c","u","i","t">> >>,
    << <<"S","e","q","u","e","n","t","i","a","l"," ","L","o","g","i","c">>,
       <<"S","e","q","u","e","n","t","i","a","l"," ","C","i","r","c","u","i","t">> >>,
    << <<"N","u","m","b","e","r"," ","S","y","s","t","e","m">>,
       <<"N","u","m","b","e","r"," ","S","y","s","t","e","m">> >>,
    << <<"N","u","m","b","e","r"," ","S","y","s","t","e","m","s">>,
       <<"N","u","m","b","e","r"," ","S","y","s","t","e","m">> >>,
    << <<"K","-","M","a","p">>,
       <<"K","-","M","a","p">> >>,
    << <<"K","a","r","n","a","u","g","h"," ","M","a","p">>,
       <<"K","-","M","a","p">> >>,
    << <<"F","l","i","p"," ","F","l","o","p">>,
       <<"F","l","i","p"," ","F","l","o","p">> >>,
    << <<"F","l","i","p","-","F","l","o","p">>,
       <<"F","l","i","p"," ","F","l","o","p">> >>,
    << <<"F","l","i","p"," ","F","l","o","p","s">>,
       <<"F","l","i","p"," ","F","l","o","p">> >>,
    << <<"A","l","u">>,
       <<"A","L","U">> >>,
    << <<"A","l","u",","," ","D","a","t","a","-","P","a","t","h"," ","&"," ","C","o","n","t","r","o","l"," ","U","n","i","t">>,
       <<"A","L","U",","," ","D","a","t","a","-","P","a","t","h"," ","&"," ","C","o","n","t","r","o","l"," ","U","n","i","t">> >>,
    << <<"C","o","n","t","r","o","l"," ","U","n","i","t">>,
       <<"C","o","n","t","r","o","l"," ","U","n","i","t">> >>,
    << <<"I","n","s","t","r","u","c","t","i","o","n"," ","S","e","t">>,
       <<"I","n","s","t","r","u","c","t","i","o","n"," ","S","e","t">> >>,
    << <<"I","n","s","t","r","u","c","t","i","o","n">>,
       <<"I","n","s","t","r","u","c","t","i","o","n"," ","S","e","t">> >>,
    << <<"A","d","d","r","e","s","s","i","n","g"," ","M","o","d","e">>,
       <<"A","d","d","r","e","s","s","i","n","g"," ","M","o","d","e">> >>,
    << <<"A","d","d","r","e","s","s","i","n","g"," ","M","o","d","e","s">>,
       <<"A","d","d","r","e","s","s","i","n","g"," ","M","o","d","e">> >>,
    << <<"I","/","O">>,
       <<"I","/","O">> >>,
    << <<"I","n","p","u","t"," ","O","u","t","p","u","t">>,
       <<"I","/","O">> >>,
    << <<"M","i","s","c","e","l","l","a","n","e","o","u","s">>,
       <<"M","i","s","c","e","l","l","a","n","e","o","u","s">> >> }

SubjectMappingKeys == { m[1] : m \in subject_mappings }
ChapterMappingKeys == { m[1] : m \in chapter_mappings }

\* mappings[key]
MappedSubject(key) == (CHOOSE m \in subject_mappings : m[1] = key)[2]
MappedChapter(key) == (CHOOSE m \in chapter_mappings : m[1] = key)[2]

\* normalize_subject without the filter of question numbers
normalize_subject_unfiltered(subject) ==
  IF subject = None \/ subject[1] = << >> THEN None
  ELSE LET titled == TitleCase(Strip(subject[1]))
       IN  IF titled \in SubjectMappingKeys THEN Some(MappedSubject(titled))
           ELSE Some(titled)

\* normalize_subject without the lookup in subject_mappings
normalize_subject_unmapped(subject) ==
  IF subject = None \/ subject[1] = << >> THEN None
  ELSE LET titled == TitleCase(Strip(subject[1]))
       IN  IF MatchesQuestionNumber(titled) THEN None
           ELSE Some(titled)

normalize_subject(subject) ==
  IF subject = None \/ subject[1] = << >> THEN None
  ELSE LET titled == TitleCase(Strip(subject[1]))
       IN  IF titled \in SubjectMappingKeys THEN Some(MappedSubject(titled))
           ELSE IF MatchesQuestionNumber(titled) THEN None
           ELSE Some(titled)

normalize_chapter(chapter) ==
  IF chapter = None \/ chapter[1] = << >> THEN None
  ELSE LET titled == TitleCase(Strip(chapter[1]))
       IN  IF titled \in ChapterMappingKeys THEN Some(MappedChapter(titled))
           ELSE IF MatchesQuestionNumber(titled) THEN None
           ELSE Some(titled)

RECURSIVE SplitFrom(_, _, _)
\* the parts of s from position i on, given the part collected so far
SplitFrom(s, i, part) ==
  IF i > Len(s) THEN << part >>
  ELSE IF s[i] = "|" THEN << part >> \o SplitFrom(s, i + 1, << >>)
  ELSE SplitFrom(s, i + 1, Append(part, s[i]))

\* title.split('|')
SplitBar(s) == SplitFrom(s, 1, << >>)

\* re.search(r'\d{4}', s): the first four consecutive digits, as an
\* optional integer
SearchYear(s) ==
  LET starts == { i \in 1..(Len(s) - 3) : IsDigits(SubSeq(s, i, i + 3)) }
      first  == CHOOSE i \in starts : \A j \in starts : i <= j
  IN  IF starts = {} THEN None
      ELSE Some(ParseInt(SubSeq(s, first, first + 3)))

\* the chapter assigned from a field: not a field that starts with "Question"
PotentialChapter(field) ==
  IF StartsWith(Strip(field), Text_Question) THEN None ELSE Some(Strip(field))

\* the parser with the year searched in the whole title, whatever the
\* number of fields
extract_year_anywhere(title) ==
  [year |-> SearchYear(title), subject |-> None, chapter |-> None]

extract_year_subject_chapter(title) ==
  LET parts == SplitBar(title)
      year == IF Len(parts) >= 3 THEN SearchYear(Strip(parts[3])) ELSE None
      isSet == Len(parts) >= 6 /\ StartsWith(Strip(parts[4]), Text_SetSpace)
      subject == IF Len(parts) < 4 THEN None
                 ELSE IF isSet THEN Some(Strip(parts[5]))
                 ELSE Some(Strip(parts[4]))
      chapter == IF Len(parts) < 4 THEN None
                 ELSE IF isSet THEN PotentialChapter(parts[6])
                 ELSE IF Len(parts) >= 5 THEN PotentialChapter(parts[5])
                 ELSE None
  IN  [year |-> year,
       subject |-> normalize_subject(subject),
       chapter |-> normalize_chapter(chapter)]

(***************************************************************************)
(* Bounds and input domains                                                *)
(***************************************************************************)
\* number of records ingested in one run
MaxIngest == 2

\* number of source files the input directory holds
MaxFiles == 2

\* length of the answers enumerated exhaustively over AnswerAlphabet
MaxAnsLen == 3

\* number of '|'-delimited fields a generated title has after its third
MaxTailFields == 3

\* the first three fields of a title: exam, branch and the field of the year
TitleHeads ==
  { << "G","A","T","E"," ","|"," ","C","S"," ","|"," ","2","0","1","4"," " >>,
    << "G","A","T","E","|","C","S","|","x","1","2","3","4","5","y" >>,
    << "G","A","T","E"," ","|"," ","C","S"," ","|"," ","n",".","d","."," " >> }

\* the fields a title may have from the fourth on
TailFields ==
  { << " ","S","e","t"," ","1"," " >>,
    << " ","S","e","t"," ","T","h","e","o","r","y"," " >>,
    << " ","C","O","A"," " >>,
    << " ","C","o","n","t","r","o","l"," ","U","n","i","t"," " >>,
    << " ","Q","u","e","s","t","i","o","n"," ","5","5" >>,
    << " ","q","u","e","s","t","i","o","n"," "," ","5"," " >> }

RECURSIVE TailsOfLength(_)
\* the text of n further fields, each after its '|'
TailsOfLength(n) ==
  IF n = 0 THEN { << >> }
  ELSE { t \o << "|" >> \o f : t \in TailsOfLength(n - 1), f \in TailFields }

\* titles of fewer than three fields
ShortTitles ==
  { << >>,
    << "G","A","T","E" >>,
    << "G","A","T","E"," ","2","0","1","4"," ","|"," ","C","S" >>,
    << "|" >>,
    << " ","1","9","9","9"," ","|"," ","2","0","0","0" >> }

Example_SetCOA ==
  << "G","A","T","E"," ","|"," ","C","S"," ","|"," ","2","0","1","4"," ","|"," ","S","e","t"," ","1"," ","|"," ","C","O","A"," ","|"," ","C","o","n","t","r","o","l"," ","U","n","i","t"," ","|"," ","Q","u","e","s","t","i","o","n"," ","5","5" >>
Example_CProgramming ==
  << "G","A","T","E"," ","|"," ","C","S"," ","|"," ","2","0","0","0"," ","|"," ","C"," ","P","r","o","g","r","a","m","m","i","n","g"," ","|"," ","S","t","o","r","a","g","e"," ","C","l","a","s","s","e","s"," ","|"," ","Q","u","e","s","t","i","o","n"," ","1","1" >>

\* the titles the parser is called with
Titles ==
  { h \o t : h \in TitleHeads,
             t \in UNION { TailsOfLength(n) : n \in 0..MaxTailFields } }
    \cup ShortTitles \cup { Example_SetCOA, Example_CProgramming }

\* the labels the normalizers are called with: every spelling and every
\* canonical name of the two tables, and the labels below
Labels ==
  { None } \cup
  { Some(m[k]) : m \in subject_mappings \cup chapter_mappings, k \in 1..2 } \cup
  { Some(l) : l \in {
    << >>,
    << " " >>,
    << "Q","u","e","s","t","i","o","n"," ","1","2" >>,
    << "q","u","e","s","t","i","o","n"," ","1","2" >>,
    << " ","Q","u","e","s","t","i","o","n"," "," ","3"," " >>,
    << "Q","u","e","s","t","i","o","n"," ","1","2","a" >>,
    << "Q","u","e","s","t","i","o","n","1","2" >>,
    << "Q","u","e","s","t","i","o","n" >>,
    << "o","s" >>,
    << "O","p","e","r","a","t","i","n","g"," ","S","y","s","t","e","m","s" >>,
    << "c","o","a" >>,
    << "i","t","'","s" >>,
    << "S","e","t"," ","1" >>,
    << "D","B","M","S" >>,
    << " ","c","o","n","t","r","o","l"," ","u","n","i","t"," " >> } }

Text_CS      == << "C","S" >>
Text_Q1dot   == << "Q",".","1" >>
Text_Q1space == << "Q"," ","1" >>
Text_blank   == << " " >>
Text_OS      == << "O","S" >>
Text_os      == << "o","s" >>
Text_OSpad   == << " ","O","S"," " >>
Text_DB      == << "D","B" >>
Text_Mem     == << "M","e","m" >>
Text_mem     == << "m","e","m" >>
Text_x       == << "x" >>
Text_y       == << "y" >>
Text_B       == << "B" >>
Text_what    == << " ","W","h","a","t","?" >>
Text_a_b     == << "a",","," ","b" >>
Text_qmark   == << "?" >>
Text_OperatingSystem ==
  << "O","p","e","r","a","t","i","n","g"," ","S","y","s","t","e","m" >>
Text_OperatingSystems ==
  << "O","p","e","r","a","t","i","n","g"," ","S","y","s","t","e","m","s" >>

\* (year, paper_code, question_no) and the answer fields of the input
\* records; the first two differ in the punctuation of question_no only,
\* the third misses paper_code and has a blank question_no
QuestionFields ==
  { [year |-> Some(2014), paper_code |-> Some(Text_CS), question_no |-> Some(Text_Q1dot),
     options |-> Some(<< Text_x, Text_y >>), correct_answer |-> Some(Text_B),
     has_diagram |-> Some(TRUE)],
    [year |-> Some(2014), paper_code |-> Some(Text_CS), question_no |-> Some(Text_Q1space),
     options |-> None, correct_answer |-> None, has_diagram |-> None],
    [year |-> None, paper_code |-> None, question_no |-> Some(Text_blank),
     options |-> Some(<< Text_y >>), correct_answer |-> Some(Text_y),
     has_diagram |-> Some(FALSE)] }

\* (subject, chapter, subtopic) of the input records
TaxonomyFields ==
  { [subject |-> Some(Text_OS),    chapter |-> None,             subtopic |-> None],
    [subject |-> Some(Text_DB),    chapter |-> Some(Text_os),    subtopic |-> Some(Text_blank)],
    [subject |-> None,             chapter |-> Some(Text_blank), subtopic |-> Some(Text_Mem)],
    [subject |-> Some(Text_OSpad), chapter |-> Some(Text_Mem),   subtopic |-> None],
    [subject |-> Some(Text_os),    chapter |-> None,             subtopic |-> Some(Text_mem)],
    [subject |-> Some(Text_DB),    chapter |-> Some(Text_Mem),   subtopic |-> None],
    [subject |-> Some(Text_a_b),   chapter |-> None,             subtopic |-> Some(Text_qmark)],
    [subject |-> Some(Text_OperatingSystem),  chapter |-> None,  subtopic |-> None],
    [subject |-> Some(Text_OperatingSystems), chapter |-> None,  subtopic |-> None] }

\* the question records a source file may hold
Entries ==
  { [year |-> q.year, paper_code |-> q.paper_code, question_no |-> q.question_no,
     subject |-> t.subject, chapter |-> t.chapter, subtopic |-> t.subtopic,
     question_text |-> Text_what,
     options |-> q.options, correct_answer |-> q.correct_answer,
     has_diagram |-> q.has_diagram] :
    q \in QuestionFields, t \in TaxonomyFields }

AnswerAlphabet == { "A", "c", "E", "0", "1", "3", " ", "_" }

RECURSIVE TextsUpTo(_)
\* every text over AnswerAlphabet of length at most n
TextsUpTo(n) ==
  IF n = 0 THEN { << >> }
  ELSE LET shorter == TextsUpTo(n - 1)
       IN  shorter \cup { Append(t, c) : t \in shorter, c \in AnswerAlphabet }

ExampleAnswers ==
  { << "A"," ","a","n","d"," ","C" >>,
    << "O","p","t","i","o","n"," ","C" >>,
    << "R","o","m","e" >>,
    << "2" >>,
    << "o","p","t","i","o","n","3" >>,
    << "O","P","T","I","O","N"," ","\t","b" >>,
    << " ","O","p","t","i","o","n"," ","E"," " >>,
    << "o","p","t","i","o","n"," ","0" >>,
    << "O","p","t","i","o","n"," ","0","0","2" >>,
    << "o","p","t","i","o","n"," ","9" >>,
    << "o","p","t","i","o","n" >>,
    << "1"," ","&"," ","3" >>,
    << "0",","," ","2"," ","a","n","d"," ","7" >>,
    << "x","1",","," ","2","y",","," ","4" >>,
    << "a"," ","\n"," ","C" >> }

\* answers that are not strings: the number 2 and the list ["A"]
NonStringAnswers ==
  { << NotStrTag, "2" >>, << NotStrTag, "[", "A", "]" >> }

Answers ==
  { None } \cup { Some(t) : t \in TextsUpTo(MaxAnsLen) \cup ExampleAnswers
                                  \cup NonStringAnswers }

OptionLists ==
  { << >>,
    << << "A" >>, << "B" >>, << "C" >>, << "D" >> >>,
    << << "P","a","r","i","s" >>, << "L","o","n","d","o","n" >>, << "R","o","m","e" >> >>,
    << << "c" >>, << "A" >> >>,
    << << "3" >>, << "1" >> >>,
    << Text_x, Text_y >>,
    << << "A" >>, << "B" >> >>,
    << Text_blank, Text_x >>,
    << << " ","a"," "," ","C" >>, << "A","\t","c" >>, Text_x >>,
    << << "v" >>, << "w" >>, Text_x, Text_y, << "z" >> >> }

\* length of the texts slugify is called with, enumerated over SlugAlphabet
MaxSlugLen == 3

SlugAlphabet == { "a", "B", "1", " ", "-", "?" }

RECURSIVE SlugTextsUpTo(_)
\* every text over SlugAlphabet of length at most n
SlugTextsUpTo(n) ==
  IF n = 0 THEN { << >> }
  ELSE LET shorter == SlugTextsUpTo(n - 1)
       IN  shorter \cup { Append(t, c) : t \in shorter, c \in SlugAlphabet }

\* the texts slugify is called with
SlugValues == SlugTextsUpTo(MaxSlugLen)

Text_SUB == << "S","U","B","-" >>
Text_CH  == << "C","H","-" >>
Text_ST  == << "S","T","-" >>

\* the prefixes its callers pass: none, or the prefix of a node type
SlugPrefixes == { << >>, Text_SUB, Text_CH, Text_ST }

(***************************************************************************)
(* State                                                                   *)
(***************************************************************************)
VARIABLES
  pc,                       \* "start": main() is called; "ingest": it is in its
                            \* loop over the records; "exported" / "aborted": it ended;
                            \* "resolve" / "resolved": a call of detect_correct_option
  questions,                \* the input records the loop has consumed, in order
  question_nodes,           \* list of Question rows
  subject_nodes,            \* insertion-ordered tables keyed by id
  chapter_nodes,
  subtopic_nodes,
  paper_nodes,
  option_nodes,             \* list of Option rows
  question_subject_edges,   \* sets of (start id, end id)
  question_chapter_edges,
  question_subtopic_edges,
  chapter_subject_edges,
  subtopic_chapter_edges,
  question_paper_edges,
  question_option_edges,    \* list of Question-Option rows
  options,                  \* arguments and result of detect_correct_option
  correct_answer,
  correct_indices,
  title,                    \* argument and result of extract_year_subject_chapter
  parsed,
  label,                    \* argument of normalize_subject / normalize_chapter
  normalized,               \* and their two results
  slug_args,                \* arguments and result of slugify
  slug_result,
  files_read,               \* number of source files read_question_files has yielded
  error,                    \* the exception that ended main(), if any
  output,                   \* the tables written to OUTPUT_DIR, in the order written
  listing,                  \* the source files, in the order the directory lists them
  previous                  \* what an earlier run over the same files produced, if any

nodeVars == << question_nodes, subject_nodes, chapter_nodes, subtopic_nodes,
               paper_nodes, option_nodes >>

edgeVars == << question_subject_edges, question_chapter_edges,
               question_subtopic_edges, chapter_subject_edges,
               subtopic_chapter_edges, question_paper_edges,
               question_option_edges >>

resolverVars == << options, correct_answer, correct_indices >>

titleVars == << title, parsed, label, normalized >>

slugVars == << slug_args, slug_result >>

runVars == << files_read, error, output >>

corpusVars == << listing, previous >>

vars == << pc, questions, nodeVars, edgeVars, resolverVars, titleVars, slugVars,
           runVars, corpusVars >>

Text_Unknown == << "U","n","k","n","o","w","n" >>
Text_UNKNOWN == << "U","N","K","N","O","W","N" >>

\* the ids already present in an id-keyed table
Ids(table) == { table[i].id : i \in 1..Len(table) }

\* a row appended for every record
AddAlways(table, node) == Append(table, node)

\* a row added to an empty table only
AddOnlyToEmpty(table, node) ==
  IF table = << >> THEN Append(table, node) ELSE table

\* table[id] = node whether or not the id is present (last write wins)
AddOrOverwrite(table, node) ==
  IF node.id \in Ids(table)
  THEN [i \in 1..Len(table) |-> IF table[i].id = node.id THEN node ELSE table[i]]
  ELSE Append(table, node)

\* if id not in table: table[id] = node
AddIfAbsent(table, node) ==
  IF node.id \in Ids(table) THEN table ELSE Append(table, node)

\* the state main() sets up before its loop
EmptyGraph ==
  /\ questions = << >>
  /\ question_nodes = << >>
  /\ subject_nodes = << >>
  /\ chapter_nodes = << >>
  /\ subtopic_nodes = << >>
  /\ paper_nodes = << >>
  /\ option_nodes = << >>
  /\ question_subject_edges = {}
  /\ question_chapter_edges = {}
  /\ question_subtopic_edges = {}
  /\ chapter_subject_edges = {}
  /\ subtopic_chapter_edges = {}
  /\ question_paper_edges = {}
  /\ question_option_edges = << >>

\* no call of the title parser or of slugify on its own is in progress
NoTitleCall ==
  /\ title = << >>
  /\ parsed = [year |-> None, subject |-> None, chapter |-> None]
  /\ label = None
  /\ normalized = [subject |-> None, chapter |-> None]

NoSlugCall ==
  /\ slug_args = [value |-> << >>, prefix |-> << >>, upper |-> TRUE]
  /\ slug_result = None

\* the source files are not given one by one, and no run came before
NoCorpus ==
  /\ listing = << >>
  /\ previous = None

\* main() has read no file, raised nothing and written nothing
NoRun ==
  /\ files_read = 0
  /\ error = None
  /\ output = << >>

NoResolverCall ==
  /\ options = << >>
  /\ correct_answer = None
  /\ correct_indices = {}

(***************************************************************************)
(* The per-record fields the loop body derives                             *)
(***************************************************************************)
PaperCodeOf(entry)  == TextOr(Strip(OrText(entry.paper_code, << >>)), Text_UNKNOWN)
\* the question number without a default
QuestionNoUndefaulted(entry) == Strip(OrText(entry.question_no, << >>))

QuestionNoOf(entry) == TextOr(Strip(OrText(entry.question_no, << >>)), Text_UNKNOWN)
QuestionIdOf(entry) ==
  make_question_id(entry.year, PaperCodeOf(entry), QuestionNoOf(entry))

SubjectNameOf(entry) ==
  TextOr(Strip(OrText(entry.subject, Text_Unknown)), Text_Unknown)
ChapterNameOf(entry) ==
  TextOr(Strip(OrText(entry.chapter, SubjectNameOf(entry))), SubjectNameOf(entry))
SubtopicNameOf(entry) ==
  TextOr(Strip(OrText(entry.subtopic, ChapterNameOf(entry))), ChapterNameOf(entry))

\* year or ""
YearColumn(entry) == IF TruthyInt(entry.year) THEN entry.year ELSE None

\* entry.get("options") or []
OptionsOf(entry) ==
  IF entry.options = None THEN << >> ELSE entry.options[1]

(***************************************************************************)
(* One iteration of the loop over the records                              *)
(***************************************************************************)
\* what lines 174-186 and 236-238 derive from each record of Entries
Derived ==
  [entry \in Entries |->
     LET subject_name  == SubjectNameOf(entry)
         chapter_name  == ChapterNameOf(entry)
         subtopic_name == SubtopicNameOf(entry)
     IN  [paper_code    |-> PaperCodeOf(entry),
          question_no   |-> QuestionNoOf(entry),
          question_id   |-> QuestionIdOf(entry),
          subject_name  |-> subject_name,
          chapter_name  |-> chapter_name,
          subtopic_name |-> subtopic_name,
          subject_id    |-> make_subject_id(subject_name),
          chapter_id    |-> make_chapter_id(chapter_name),
          subtopic_id   |-> make_subtopic_id(subtopic_name),
          paper_id      |-> make_paper_id(entry.year, PaperCodeOf(entry)),
          options       |-> OptionsOf(entry),
          correct_indices |->
            detect_correct_option(OptionsOf(entry), entry.correct_answer)]]

Ingest(entry) ==
  LET d == Derived[entry]
      paper_code  == d.paper_code
      question_no == d.question_no
      question_id == d.question_id
      subject_name  == d.subject_name
      chapter_name  == d.chapter_name
      subtopic_name == d.subtopic_name
      subject_id  == d.subject_id
      chapter_id  == d.chapter_id
      subtopic_id == d.subtopic_id
      paper_id    == d.paper_id
      opts        == d.options
      indices     == d.correct_indices
  IN
  /\ pc = "ingest"
  /\ files_read >= 1
  /\ Len(questions) < MaxIngest
  /\ questions' = Append(questions, entry)
  /\ subject_nodes' = AddIfAbsent(subject_nodes,
                                  [id |-> subject_id, name |-> subject_name])
  /\ chapter_nodes' = AddIfAbsent(chapter_nodes,
                                  [id |-> chapter_id, name |-> chapter_name])
  /\ subtopic_nodes' = AddIfAbsent(subtopic_nodes,
                                   [id |-> subtopic_id, name |-> subtopic_name])
  /\ paper_nodes' = AddIfAbsent(paper_nodes,
                                [id |-> paper_id, paper_code |-> paper_code,
                                 year |-> YearColumn(entry)])
  /\ question_nodes' = Append(question_nodes,
                              [id |-> question_id,
                               question_no |-> question_no,
                               question_text |-> Strip(entry.question_text),
                               year |-> YearColumn(entry),
                               paper_code |-> paper_code,
                               correct_answer |-> entry.correct_answer,
                               has_diagram |-> bool_to_str(entry.has_diagram = Some(TRUE))])
  /\ question_subject_edges' = question_subject_edges \cup { << question_id, subject_id >> }
  /\ question_chapter_edges' = question_chapter_edges \cup { << question_id, chapter_id >> }
  /\ question_subtopic_edges' = question_subtopic_edges \cup { << question_id, subtopic_id >> }
  /\ chapter_subject_edges' = chapter_subject_edges \cup { << chapter_id, subject_id >> }
  /\ subtopic_chapter_edges' = subtopic_chapter_edges \cup { << subtopic_id, chapter_id >> }
  /\ question_paper_edges' = question_paper_edges \cup { << question_id, paper_id >> }
  /\ options' = opts
  /\ correct_answer' = entry.correct_answer
  /\ correct_indices' = indices
  /\ option_nodes' = option_nodes \o
       [i \in 1..Len(opts) |->
          [id |-> make_option_id(question_id, i - 1),
           text |-> Strip(opts[i]),
           option_index |-> i]]
  /\ question_option_edges' = question_option_edges \o
       [i \in 1..Len(opts) |->
          [start |-> question_id,
           end |-> make_option_id(question_id, i - 1),
           is_correct |-> bool_to_str((i - 1) \in indices)]]
  /\ UNCHANGED corpusVars
  /\ UNCHANGED << pc, titleVars, slugVars, runVars >>

(***************************************************************************)
(* The start of main(), the reading of the files and the export            *)
(***************************************************************************)
\* INPUT_DIR exists: main() sets up its tables and enters the loop
Start ==
  /\ pc = "start"
  /\ pc' = "ingest"
  /\ UNCHANGED corpusVars
  /\ UNCHANGED << questions, nodeVars, edgeVars, resolverVars, titleVars,
                  slugVars, runVars >>

\* INPUT_DIR does not exist
MissingInputDir ==
  /\ pc = "start"
  /\ error' = Some("SystemExit")
  /\ pc' = "aborted"
  /\ UNCHANGED corpusVars
  /\ UNCHANGED << questions, nodeVars, edgeVars, resolverVars, titleVars,
                  slugVars, files_read, output >>

\* read_question_files yields the list of records of the next file
ReadFile ==
  /\ pc = "ingest"
  /\ files_read < MaxFiles
  /\ files_read' = files_read + 1
  /\ UNCHANGED corpusVars
  /\ UNCHANGED << pc, questions, nodeVars, edgeVars, resolverVars, titleVars,
                  slugVars, error, output >>

\* a parse error recorded while the loop goes on with the next file
ParseErrorSkipsFile(kind) ==
  /\ pc = "ingest"
  /\ files_read < MaxFiles
  /\ files_read' = files_read + 1
  /\ error' = Some(kind)
  /\ UNCHANGED corpusVars
  /\ UNCHANGED << pc, questions, nodeVars, edgeVars, resolverVars, titleVars,
                  slugVars, output >>

\* the next file does not parse (json.JSONDecodeError, raised again as
\* RuntimeError) or is no JSON array (ValueError): main() ends
ParseError(kind) ==
  /\ pc = "ingest"
  /\ files_read < MaxFiles
  /\ error' = Some(kind)
  /\ pc' = "aborted"
  /\ UNCHANGED corpusVars
  /\ UNCHANGED << questions, nodeVars, edgeVars, resolverVars, titleVars,
                  slugVars, files_read, output >>

\* the exceptions read_question_files lets out
ParseErrorKinds == { "RuntimeError", "ValueError" }

\* the characters of the texts in the order of their code points: from 32,
\* from 35, from 93 and from 97 on (the texts hold no double quote, no
\* backslash and no grave accent)
AsciiFrom32 == << " ","!" >>
AsciiFrom35 ==
  << "#","$","%","&","'","(",")","*","+",",","-",".","/","0","1","2",
     "3","4","5","6","7","8","9",":",";","<","=",">","?","@","A","B",
     "C","D","E","F","G","H","I","J","K","L","M","N","O","P","Q","R",
     "S","T","U","V","W","X","Y","Z","[" >>
AsciiFrom93 == << "]","^","_" >>
AsciiFrom97 ==
  << "a","b","c","d","e","f","g","h","i","j","k","l","m","n","o","p",
     "q","r","s","t","u","v","w","x","y","z","{","|","}","~" >>

\* ord(c)
CodePoint ==
  [c \in Range(AsciiFrom32) \cup Range(AsciiFrom35) \cup Range(AsciiFrom93)
        \cup Range(AsciiFrom97) |->
     IF c \in Range(AsciiFrom32) THEN 31 + IndexOf(c, AsciiFrom32)
     ELSE IF c \in Range(AsciiFrom35) THEN 34 + IndexOf(c, AsciiFrom35)
     ELSE IF c \in Range(AsciiFrom93) THEN 92 + IndexOf(c, AsciiFrom93)
     ELSE 96 + IndexOf(c, AsciiFrom97)]

\* a < b for two str
TextLess(a, b) ==
  \E k \in 1..Len(b) :
    /\ k <= Len(a) + 1
    /\ SubSeq(a, 1, k - 1) = SubSeq(b, 1, k - 1)
    /\ k = Len(a) + 1 \/ CodePoint[a[k]] < CodePoint[b[k]]

\* p < q for two tuples (start, end)
PairLess(p, q) == TextLess(p[1], q[1]) \/ (p[1] = q[1] /\ TextLess(p[2], q[2]))

RECURSIVE SortedPairs(_)
\* sorted(edge_pairs)
SortedPairs(edge_pairs) ==
  IF edge_pairs = {} THEN << >>
  ELSE LET least == CHOOSE p \in edge_pairs :
                      \A q \in edge_pairs : p = q \/ PairLess(p, q)
       IN  << least >> \o SortedPairs(edge_pairs \ { least })

edge_rows(edge_pairs, rel_type) ==
  LET sorted == SortedPairs(edge_pairs)
  IN  [i \in 1..Len(sorted) |->
         [start |-> sorted[i][1], end |-> sorted[i][2], type |-> rel_type]]

\* the first table written while the loop over the records goes on
ExportInsideLoop ==
  /\ pc = "ingest"
  /\ output' = << [file |-> "questions.csv", rows |-> question_nodes] >>
  /\ UNCHANGED corpusVars
  /\ UNCHANGED << pc, questions, nodeVars, edgeVars, resolverVars, titleVars,
                  slugVars, files_read, error >>

\* the thirteen calls of write_csv, in their order
Export ==
  /\ pc = "ingest"
  /\ output' =
       << [file |-> "questions.csv", rows |-> question_nodes],
          [file |-> "subjects.csv", rows |-> subject_nodes],
          [file |-> "chapters.csv", rows |-> chapter_nodes],
          [file |-> "subtopics.csv", rows |-> subtopic_nodes],
          [file |-> "papers.csv", rows |-> paper_nodes],
          [file |-> "options.csv", rows |-> option_nodes],
          [file |-> "question_subject.csv",
           rows |-> edge_rows(question_subject_edges, "BELONGS_TO")],
          [file |-> "question_chapter.csv",
           rows |-> edge_rows(question_chapter_edges, "IS_IN_CHAPTER")],
          [file |-> "question_subtopic.csv",
           rows |-> edge_rows(question_subtopic_edges, "HAS_SUBTOPIC")],
          [file |-> "chapter_subject.csv",
           rows |-> edge_rows(chapter_subject_edges, "BELONGS_TO")],
          [file |-> "subtopic_chapter.csv",
           rows |-> edge_rows(subtopic_chapter_edges, "BELONGS_TO")],
          [file |-> "question_paper.csv",
           rows |-> edge_rows(question_paper_edges, "ASKED_IN")],
          [file |-> "question_option.csv", rows |-> question_option_edges] >>
  /\ pc' = "exported"
  /\ UNCHANGED corpusVars
  /\ UNCHANGED << questions, nodeVars, edgeVars, resolverVars, titleVars,
                  slugVars, files_read, error >>

Init ==
  /\ pc = "start"
  /\ EmptyGraph
  /\ NoResolverCall
  /\ NoTitleCall
  /\ NoSlugCall
  /\ NoRun
  /\ NoCorpus

Next ==
  \/ Start
  \/ MissingInputDir
  \/ ReadFile
  \/ \E kind \in ParseErrorKinds : ParseError(kind)
  \/ \E entry \in Entries : Ingest(entry)
  \/ Export

Spec == Init /\ [][Next]_vars

(***************************************************************************)
(* Two runs of main() over the same source files                           *)
(***************************************************************************)
\* the records the files of these runs hold
RunEntries ==
  { e \in Entries :
      /\ e.options # None
      /\ \/ e.subject = Some(Text_OS) /\ e.chapter = None
         \/ e.subject = Some(Text_DB) /\ e.chapter = Some(Text_os) }

RECURSIVE RecordLists(_)
\* the lists of at most n records
RecordLists(n) ==
  IF n = 0 THEN { << >> }
  ELSE LET shorter == RecordLists(n - 1)
       IN  shorter \cup { Append(l, e) : l \in shorter, e \in RunEntries }

\* the name of the k-th source file: a-data.json, b-data.json, ...
FileName(k) ==
  << LowerCase[k] >> \o << "-","d","a","t","a",".","j","s","o","n" >>

RECURSIVE RecordsOfFirst(_, _)
\* the records of the first k files of a list of files, one after another
RecordsOfFirst(files, k) ==
  IF k = 0 THEN << >> ELSE RecordsOfFirst(files, k - 1) \o files[k].records

\* the contents of the MaxFiles source files, MaxIngest records in all
Corpora ==
  { c \in [1..MaxFiles -> RecordLists(MaxIngest)] :
      Len(RecordsOfFirst([k \in 1..MaxFiles |-> [records |-> c[k]]], MaxFiles))
        = MaxIngest }

\* the orders in which directory.glob may list the files of a corpus
Listings(c) ==
  { [i \in 1..MaxFiles |-> [path |-> FileName(p[i]), records |-> c[p[i]]]] :
      p \in Permutations(1..MaxFiles) }

\* the files in the order listed
UnsortedFiles(files) == files

RECURSIVE SortedFilesOf(_)
\* the files of a set in ascending order of their paths
SortedFilesOf(fileSet) ==
  IF fileSet = {} THEN << >>
  ELSE LET least == CHOOSE f \in fileSet :
                      \A g \in fileSet : f = g \/ TextLess(f.path, g.path)
       IN  << least >> \o SortedFilesOf(fileSet \ { least })

\* sorted(directory.glob("*-data.json"))
SortedFiles(files) == SortedFilesOf(Range(files))

\* the files in the order read_question_files yields them
ReadOrder == SortedFiles(listing)

\* read_question_files yields the next file once the records of the
\* file before it are consumed
RunReadFile ==
  /\ files_read < Len(listing)
  /\ Len(questions) = Len(RecordsOfFirst(ReadOrder, files_read))
  /\ ReadFile

\* the loop body on the next record of the file being read
RunIngest ==
  LET records == RecordsOfFirst(ReadOrder, files_read)
  IN  /\ Len(questions) < Len(records)
      /\ Ingest(records[Len(questions) + 1])

\* the generator is exhausted: the tables are written
RunExport ==
  /\ files_read = Len(listing)
  /\ Len(questions) = Len(RecordsOfFirst(ReadOrder, files_read))
  /\ Export

\* main() is called again on the same files, which the directory may list
\* in another order
Rerun ==
  /\ pc = "exported"
  /\ previous = None
  /\ previous' = Some([listing |-> listing, nodes |-> nodeVars,
                        edges |-> edgeVars, output |-> output])
  /\ listing' \in { l \in [1..Len(listing) -> Range(listing)] :
                      Range(l) = Range(listing) }
  /\ pc' = "start"
  /\ questions' = << >>
  /\ question_nodes' = << >>
  /\ subject_nodes' = << >>
  /\ chapter_nodes' = << >>
  /\ subtopic_nodes' = << >>
  /\ paper_nodes' = << >>
  /\ option_nodes' = << >>
  /\ question_subject_edges' = {}
  /\ question_chapter_edges' = {}
  /\ question_subtopic_edges' = {}
  /\ chapter_subject_edges' = {}
  /\ subtopic_chapter_edges' = {}
  /\ question_paper_edges' = {}
  /\ question_option_edges' = << >>
  /\ options' = << >>
  /\ correct_answer' = None
  /\ correct_indices' = {}
  /\ files_read' = 0
  /\ output' = << >>
  /\ UNCHANGED << error, titleVars, slugVars >>

InitRuns ==
  /\ pc = "start"
  /\ EmptyGraph
  /\ NoResolverCall
  /\ NoTitleCall
  /\ NoSlugCall
  /\ NoRun
  /\ listing \in UNION { Listings(c) : c \in Corpora }
  /\ previous = None

NextRuns == Start \/ RunReadFile \/ RunIngest \/ RunExport \/ Rerun

SpecRuns == InitRuns /\ [][NextRuns]_vars

(***************************************************************************)
(* detect_correct_option on its own, over enumerated arguments             *)
(***************************************************************************)
Resolve ==
  /\ pc = "resolve"
  /\ correct_indices' = detect_correct_option(options, correct_answer)
  /\ pc' = "resolved"
  /\ UNCHANGED corpusVars
  /\ UNCHANGED << questions, nodeVars, edgeVars, options, correct_answer,
                  titleVars, slugVars, runVars >>

InitResolve ==
  /\ pc = "resolve"
  /\ EmptyGraph
  /\ options \in OptionLists
  /\ correct_answer \in Answers
  /\ correct_indices = {}
  /\ NoTitleCall
  /\ NoSlugCall
  /\ NoRun
  /\ NoCorpus

NextResolve == Resolve

SpecResolve == InitResolve /\ [][NextResolve]_vars

(***************************************************************************)
(* slugify on its own, over enumerated arguments                           *)
(***************************************************************************)
Slugify ==
  /\ pc = "slugify"
  /\ slug_result' = Some(slugify(slug_args.value, slug_args.prefix, slug_args.upper))
  /\ pc' = "slugified"
  /\ UNCHANGED corpusVars
  /\ UNCHANGED << questions, nodeVars, edgeVars, resolverVars, titleVars,
                  slug_args, runVars >>

InitSlugify ==
  /\ pc = "slugify"
  /\ EmptyGraph
  /\ NoResolverCall
  /\ NoTitleCall
  /\ NoRun
  /\ NoCorpus
  /\ slug_args \in [value : SlugValues, prefix : SlugPrefixes, upper : BOOLEAN]
  /\ slug_result = None

NextSlugify == Slugify

SpecSlugify == InitSlugify /\ [][NextSlugify]_vars

(***************************************************************************)
(* The title parser and the two normalizers, over enumerated arguments     *)
(***************************************************************************)
Extract ==
  /\ pc = "extract"
  /\ parsed' = extract_year_subject_chapter(title)
  /\ pc' = "extracted"
  /\ UNCHANGED corpusVars
  /\ UNCHANGED << questions, nodeVars, edgeVars, resolverVars, title, label,
                  normalized, slugVars, runVars >>

Normalize ==
  /\ pc = "normalize"
  /\ normalized' = [subject |-> normalize_subject(label),
                    chapter |-> normalize_chapter(label)]
  /\ pc' = "normalized"
  /\ UNCHANGED corpusVars
  /\ UNCHANGED << questions, nodeVars, edgeVars, resolverVars, title, parsed,
                  label, slugVars, runVars >>

InitTitle ==
  /\ EmptyGraph
  /\ NoResolverCall
  /\ NoSlugCall
  /\ NoRun
  /\ NoCorpus
  /\ parsed = [year |-> None, subject |-> None, chapter |-> None]
  /\ normalized = [subject |-> None, chapter |-> None]
  /\ \/ pc = "extract" /\ title \in Titles /\ label = None
     \/ pc = "normalize" /\ title = << >> /\ label \in Labels

NextTitle == Extract \/ Normalize

SpecTitle == InitTitle /\ [][NextTitle]_vars


(***************************************************************************)
(* Properties of the graph builder                                         *)
(***************************************************************************)
\* the natural key a Question row carries, and the key of an input record
NodeKey(node)    == << node.year, node.paper_code, node.question_no >>
RecordKey(entry) == << YearColumn(entry), PaperCodeOf(entry), QuestionNoOf(entry) >>

IsBlank(opt) == opt = None \/ Strip(opt[1]) = << >>

EdgesFrom(edges, start) == { e \in edges : e[1] = start }

\* C1: once the same record has been ingested twice, at any two positions of
\* the sequence of ingests, the Question table holds exactly one row with
\* that record's (year, paper_code, question_no) key.
C1_OneQuestionNodePerRecord ==
  \A i, j \in 1..Len(questions) :
    (i < j /\ questions[i] = questions[j]) =>
      Cardinality({ n \in 1..Len(question_nodes) :
                      NodeKey(question_nodes[n]) = RecordKey(questions[i]) }) = 1

\* C2: an ingest of a record that was ingested before leaves the size of each
\* of the seven edge collections unchanged.
C2_ReingestKeepsEdgeSizes ==
  [][ ( /\ Len(questions') = Len(questions) + 1
        /\ \E i \in 1..Len(questions) : questions[i] = questions'[Len(questions')] )
      => /\ Cardinality(question_subject_edges') = Cardinality(question_subject_edges)
         /\ Cardinality(question_chapter_edges') = Cardinality(question_chapter_edges)
         /\ Cardinality(question_subtopic_edges') = Cardinality(question_subtopic_edges)
         /\ Cardinality(chapter_subject_edges') = Cardinality(chapter_subject_edges)
         /\ Cardinality(subtopic_chapter_edges') = Cardinality(subtopic_chapter_edges)
         /\ Cardinality(question_paper_edges') = Cardinality(question_paper_edges)
         /\ Len(question_option_edges') = Len(question_option_edges) ]_vars

\* C3: every Question id of the snapshot starts exactly one Question-Subject,
\* one Question-Chapter, one Question-Subtopic and one Question-Paper edge.
C3_OneTaxonomyEdgePerQuestion ==
  \A n \in 1..Len(question_nodes) :
    LET q == question_nodes[n].id
    IN  /\ Cardinality(EdgesFrom(question_subject_edges, q)) = 1
        /\ Cardinality(EdgesFrom(question_chapter_edges, q)) = 1
        /\ Cardinality(EdgesFrom(question_subtopic_edges, q)) = 1
        /\ Cardinality(EdgesFrom(question_paper_edges, q)) = 1

\* C4: every Chapter id starts at most one Chapter-Subject edge.
C4_ChapterHasOneSubject ==
  \A c \in Ids(chapter_nodes) :
    Cardinality(EdgesFrom(chapter_subject_edges, c)) <= 1

\* C5 as stated: for every ingested record with an absent or blank chapter, a
\* Chapter node its question is linked to is named as the record's subject;
\* for every record with an absent or blank subtopic, a linked Subtopic node
\* is named as the record's chapter (after defaulting), whatever came before.
C5_DefaultNamesAlways ==
  \A i \in 1..Len(questions) :
    LET entry == questions[i]
        q     == QuestionIdOf(entry)
    IN  /\ IsBlank(entry.chapter) =>
             \E c \in 1..Len(chapter_nodes) :
               /\ << q, chapter_nodes[c].id >> \in question_chapter_edges
               /\ chapter_nodes[c].name = SubjectNameOf(entry)
        /\ IsBlank(entry.subtopic) =>
             \E t \in 1..Len(subtopic_nodes) :
               /\ << q, subtopic_nodes[t].id >> \in question_subtopic_edges
               /\ subtopic_nodes[t].name = ChapterNameOf(entry)

ChapterIdOf(entry)  == make_chapter_id(ChapterNameOf(entry))
SubtopicIdOf(entry) == make_subtopic_id(SubtopicNameOf(entry))

\* the position of the first ingested record that produced the chapter id
FirstWithChapter(id) ==
  CHOOSE i \in 1..Len(questions) :
    /\ ChapterIdOf(questions[i]) = id
    /\ \A j \in 1..(i - 1) : ChapterIdOf(questions[j]) # id

\* the position of the first ingested record that produced the subtopic id
FirstWithSubtopic(id) ==
  CHOOSE i \in 1..Len(questions) :
    /\ SubtopicIdOf(questions[i]) = id
    /\ \A j \in 1..(i - 1) : SubtopicIdOf(questions[j]) # id

\* C5 amended: for every ingested record with an absent or blank chapter, the
\* question is linked to the Chapter node whose id derives from the record's
\* subject name, and that node carries the chapter name of the first record
\* that produced the id: the record's subject name when the record is the
\* first, a first-seen spelling otherwise.  Likewise for a blank subtopic and
\* the record's chapter name.
C5_DefaultNamesFirstSeen ==
  \A i \in 1..Len(questions) :
    LET entry == questions[i]
        q     == QuestionIdOf(entry)
        cid   == make_chapter_id(SubjectNameOf(entry))
        tid   == make_subtopic_id(ChapterNameOf(entry))
    IN  /\ IsBlank(entry.chapter) =>
             /\ << q, cid >> \in question_chapter_edges
             /\ \E c \in 1..Len(chapter_nodes) :
                  /\ chapter_nodes[c].id = cid
                  /\ chapter_nodes[c].name =
                       ChapterNameOf(questions[FirstWithChapter(cid)])
             /\ (FirstWithChapter(cid) = i =>
                   \E c \in 1..Len(chapter_nodes) :
                     /\ chapter_nodes[c].id = cid
                     /\ chapter_nodes[c].name = SubjectNameOf(entry))
        /\ IsBlank(entry.subtopic) =>
             /\ << q, tid >> \in question_subtopic_edges
             /\ \E t \in 1..Len(subtopic_nodes) :
                  /\ subtopic_nodes[t].id = tid
                  /\ subtopic_nodes[t].name =
                       SubtopicNameOf(questions[FirstWithSubtopic(tid)])
             /\ (FirstWithSubtopic(tid) = i =>
                   \E t \in 1..Len(subtopic_nodes) :
                     /\ subtopic_nodes[t].id = tid
                     /\ subtopic_nodes[t].name = ChapterNameOf(entry))

\* a record with a blank chapter was ingested after a record that produced
\* the same chapter id from another spelling
C5_Witness ==
  \E i, j \in 1..Len(questions) :
    /\ i < j
    /\ IsBlank(questions[j].chapter)
    /\ ChapterIdOf(questions[i]) = ChapterIdOf(questions[j])
    /\ ChapterNameOf(questions[i]) # SubjectNameOf(questions[j])
    /\ \E c \in 1..Len(chapter_nodes) :
         /\ chapter_nodes[c].id = ChapterIdOf(questions[j])
         /\ chapter_nodes[c].name = ChapterNameOf(questions[i])


(***************************************************************************)
(* Properties of the answer resolver                                       *)
(***************************************************************************)
Options_ABCD == << << "A" >>, << "B" >>, << "C" >>, << "D" >> >>

\* a call with an answer string has returned
Resolved == pc = "resolved" /\ correct_answer # None /\ IsStr(correct_answer[1])

\* the zero-based positions of the options whose normalized text is the
\* normalized answer
ExactSet ==
  { i \in 0..(Len(options) - 1) :
      normalize_text(options[i + 1]) = normalize_text(correct_answer[1]) }

\* s ends with the token s[k..Len(s)] and is either that token alone or the
\* word "option" in any case, then whitespace, then the token
OptionForm(s, k) ==
  /\ 1 <= k /\ k <= Len(s)
  /\ \/ k = 1
     \/ /\ k >= 7
        /\ Lower(SubSeq(s, 1, 6)) = << "o","p","t","i","o","n" >>
        /\ \A m \in 7..(k - 1) : s[m] \in Whitespace

\* C6: the answer "A and C" over the options A, B, C, D resolves to {0, 2},
\* the indices of the letters the answer names.
C6_MultiLetterExample ==
  ( /\ Resolved
    /\ options = Options_ABCD
    /\ correct_answer = Some(<< "A"," ","a","n","d"," ","C" >>) )
  => correct_indices = {0, 2}

\* C7: when options is not empty and some option's normalized text equals
\* the normalized non-blank answer, the result is exactly the set of the
\* indices of those options, whatever a letter or number reading would give.
C7_ExactMatchFirst ==
  ( /\ Resolved
    /\ options # << >>
    /\ Strip(correct_answer[1]) # << >>
    /\ ExactSet # {} )
  => correct_indices = ExactSet

\* the answer "A" names the second of the options "c", "A" by its text and
\* the first by its letter; the text wins
C7_Witness ==
  /\ Resolved
  /\ options = << << "c" >>, << "A" >> >>
  /\ correct_answer = Some(<< "A" >>)
  /\ ExactSet = {1}
  /\ correct_indices = {1}

\* C8: when no option matches exactly and the trimmed answer is one letter,
\* optionally preceded by the word "option" in any case, the result is
\* {letter - 'A'} if that index is below the number of options, and does not
\* hold that index otherwise.
C8_SingleLetter ==
  Resolved =>
    LET s   == Strip(correct_answer[1])
        idx == LetterIndex(UpperChar(s[Len(s)]))
    IN  ( /\ ExactSet = {}
          /\ OptionForm(s, Len(s))
          /\ (IsUpper(s[Len(s)]) \/ IsLower(s[Len(s)])) )
        => IF idx < Len(options)
           THEN correct_indices = { idx }
           ELSE idx \notin correct_indices

\* "Option C" over the options A, B, C, D
C8_Witness ==
  /\ Resolved
  /\ options = Options_ABCD
  /\ correct_answer = Some(<< "O","p","t","i","o","n"," ","C" >>)
  /\ ExactSet = {}
  /\ correct_indices = {2}

\* C9: when no option matches exactly and the trimmed answer is one integer
\* n, optionally preceded by the word "option", the result is {n - 1} if
\* 1 <= n <= number of options, and does not hold n - 1 otherwise.
C9_SingleNumber ==
  Resolved =>
    LET s == Strip(correct_answer[1])
    IN  \A k \in 1..Len(s) :
          ( /\ ExactSet = {}
            /\ OptionForm(s, k)
            /\ \A m \in k..Len(s) : IsDigit(s[m]) )
          => LET n == ParseInt(SubSeq(s, k, Len(s)))
             IN  IF 1 <= n /\ n <= Len(options)
                 THEN correct_indices = { n - 1 }
                 ELSE (n - 1) \notin correct_indices

\* "Option 002" over the options A, B, C, D
C9_Witness ==
  /\ Resolved
  /\ options = Options_ABCD
  /\ correct_answer = Some(<< "O","p","t","i","o","n"," ","0","0","2" >>)
  /\ ExactSet = {}
  /\ correct_indices = {1}

\* the integers written by the standalone runs of digits of text: runs with
\* no letter, digit or underscore next to them on either side
StandaloneIntegers(text) ==
  { ParseInt(SubSeq(text, i, j)) :
      << i, j >> \in { p \in (1..Len(text)) \X (1..Len(text)) :
           /\ p[1] <= p[2]
           /\ \A m \in p[1]..p[2] : IsDigit(text[m])
           /\ (p[1] = 1 \/ ~IsWordChar(text[p[1] - 1]))
           /\ (p[2] = Len(text) \/ ~IsWordChar(text[p[2] + 1])) } }

\* C10: when no earlier step of the cascade produced a result, the result is
\* {n - 1 : n a standalone integer token of the answer, 1 <= n <= number of
\* options}: 0 and numbers above the number of options are rejected, and the
\* result is empty when no token is accepted.
C10_MultiNumber ==
  ( /\ Resolved
    /\ ExactMatches(options, correct_answer[1]) = {}
    /\ SingleLetterIndices(options, correct_answer[1]) = {}
    /\ SingleNumberIndices(options, correct_answer[1]) = {}
    /\ MultiLetterIndices(options, correct_answer[1]) = {} )
  => correct_indices =
       { n - 1 : n \in { m \in StandaloneIntegers(correct_answer[1]) :
                           1 <= m /\ m <= Len(options) } }

\* "0 3" over five options: the token 0 is rejected, the token 3 accepted
C10_Witness ==
  /\ Resolved
  /\ Len(options) = 5
  /\ correct_answer = Some(<< "0"," ","3" >>)
  /\ MultiLetterIndices(options, correct_answer[1]) = {}
  /\ correct_indices = {2}

\* C11: detect_correct_option returns the empty set whenever options is
\* empty or correct_answer is absent, not a string, or blank after trimming.
C11_UndeterminableIsEmpty ==
  ( /\ pc = "resolved"
    /\ \/ options = << >>
       \/ correct_answer = None
       \/ correct_answer[1] \in NonStringAnswers
       \/ \A i \in 1..Len(correct_answer[1]) : correct_answer[1][i] \in Whitespace )
  => correct_indices = {}

\* a blank answer over options of which one is blank too
C11_Witness ==
  /\ pc = "resolved"
  /\ options = << Text_blank, Text_x >>
  /\ correct_answer = Some(<< " "," " >>)
  /\ correct_indices = {}

(***************************************************************************)
(* Properties of the title parser                                          *)
(***************************************************************************)
\* the '|'-delimited fields of the title of the call
TitleFields == SplitBar(title)

\* a "Set N" marker: the word Set, one space and a number
IsSetMarker(field) ==
  LET t == Strip(field)
  IN  /\ Len(t) > Len(Text_SetSpace)
      /\ SubSeq(t, 1, Len(Text_SetSpace)) = Text_SetSpace
      /\ \A i \in (Len(Text_SetSpace) + 1)..Len(t) : IsDigit(t[i])

\* a label of the form "Question <digits>"
IsQuestionNumberLabel(s) ==
  \E i \in (Len(Text_Question) + 1)..(Len(s) - 1) :
    /\ SubSeq(s, 1, Len(Text_Question)) = Text_Question
    /\ \A j \in (Len(Text_Question) + 1)..i : s[j] \in Whitespace
    /\ \A j \in (i + 1)..Len(s) : IsDigit(s[j])

\* the subject read from field k of the title, absent without such a field
SubjectAt(k) ==
  IF Len(TitleFields) >= k THEN normalize_subject(Some(Strip(TitleFields[k])))
  ELSE None

\* the chapter read from field k of the title, absent without such a field
\* or with a field that is a question number
ChapterAt(k) ==
  IF Len(TitleFields) >= k /\ ~StartsWith(Strip(TitleFields[k]), Text_Question)
  THEN normalize_chapter(Some(Strip(TitleFields[k])))
  ELSE None

\* C12: for every title with at least three fields whose fourth field is a
\* "Set N" marker, the subject is read from the fifth field and the chapter
\* from the sixth, and the marker itself is never returned as the subject
\* (a fifth field with the text of the marker is a subject of its own)
C12_SetMarkerShiftsOffsets ==
  (pc = "extracted" /\ Len(TitleFields) >= 4 /\ IsSetMarker(TitleFields[4])) =>
    /\ parsed.subject = SubjectAt(5)
    /\ parsed.chapter = ChapterAt(6)
    /\ (Len(TitleFields) >= 5 /\ Strip(TitleFields[5]) = Strip(TitleFields[4]))
         \/ parsed.subject # Some(TitleCase(Strip(TitleFields[4])))

\* C13: for every title whose fourth field is not a "Set N" marker, the
\* subject is read from the fourth field and the chapter from the fifth,
\* also when the fourth field is a subject name that begins with "Set"
C13_NoMarkerKeepsOffsets ==
  (pc = "extracted" /\ Len(TitleFields) >= 4 /\ ~IsSetMarker(TitleFields[4])) =>
    /\ parsed.subject = SubjectAt(4)
    /\ parsed.chapter = ChapterAt(5)

Text_COA == << "C","O","A" >>
Text_ControlUnit == << "C","o","n","t","r","o","l"," ","U","n","i","t" >>
Text_CProgramming == << "C"," ","P","r","o","g","r","a","m","m","i","n","g" >>
Text_StorageClasses == << "S","t","o","r","a","g","e"," ","C","l","a","s","s","e","s" >>
Text_COACanonical ==
  << "C","o","m","p","u","t","e","r"," ","O","r","g","a","n","i","z","a","t","i","o","n"," ","A","n","d"," ","A","r","c","h","i","t","e","c","t","u","r","e" >>

\* C14 as stated: the first example title gives year 2014, subject "COA" and
\* chapter "Control Unit", the second year 2000, subject "C Programming" and
\* chapter "Storage Classes": the text of the fields
C14_ExamplesReturnFieldText ==
  /\ (pc = "extracted" /\ title = Example_SetCOA) =>
       parsed = [year |-> Some(2014), subject |-> Some(Text_COA),
                 chapter |-> Some(Text_ControlUnit)]
  /\ (pc = "extracted" /\ title = Example_CProgramming) =>
       parsed = [year |-> Some(2000), subject |-> Some(Text_CProgramming),
                 chapter |-> Some(Text_StorageClasses)]

\* C14, amended: the first example title gives year 2014, the canonical
\* subject "Computer Organization And Architecture" and chapter "Control
\* Unit", the second year 2000, "C Programming" and "Storage Classes"; a
\* returned subject or chapter is the trimmed, title-cased text of a field
\* of the title or the canonical name the mapping table gives for it
C14_ExamplesReturnCanonicalNames ==
  /\ (pc = "extracted" /\ title = Example_SetCOA) =>
       parsed = [year |-> Some(2014), subject |-> Some(Text_COACanonical),
                 chapter |-> Some(Text_ControlUnit)]
  /\ (pc = "extracted" /\ title = Example_CProgramming) =>
       parsed = [year |-> Some(2000), subject |-> Some(Text_CProgramming),
                 chapter |-> Some(Text_StorageClasses)]
  /\ (pc = "extracted" /\ parsed.subject # None) =>
       \E k \in 4..Len(TitleFields) :
         LET t == TitleCase(Strip(TitleFields[k]))
         IN  parsed.subject[1] = t \/ << t, parsed.subject[1] >> \in subject_mappings
  /\ (pc = "extracted" /\ parsed.chapter # None) =>
       \E k \in 5..Len(TitleFields) :
         LET t == TitleCase(Strip(TitleFields[k]))
         IN  parsed.chapter[1] = t \/ << t, parsed.chapter[1] >> \in chapter_mappings

C14_Witness ==
  /\ pc = "extracted"
  /\ title = Example_SetCOA
  /\ parsed.subject = Some(Text_COACanonical)

\* C15: a label of the form "Question <digits>" is never emitted as a
\* taxonomy value: the parser returns neither a subject nor a chapter of
\* that form, and the two normalizers return None for such a label
C15_QuestionNumberNeverEmitted ==
  /\ pc = "extracted" =>
       /\ parsed.subject = None \/ ~IsQuestionNumberLabel(parsed.subject[1])
       /\ parsed.chapter = None \/ ~IsQuestionNumberLabel(parsed.chapter[1])
  /\ pc = "normalized" =>
       /\ normalized.subject = None \/ ~IsQuestionNumberLabel(normalized.subject[1])
       /\ normalized.chapter = None \/ ~IsQuestionNumberLabel(normalized.chapter[1])
       /\ (label # None /\ IsQuestionNumberLabel(label[1])) =>
            normalized = [subject |-> None, chapter |-> None]

\* a title whose subject field is a question number has been parsed
C15_Witness ==
  /\ pc = "extracted"
  /\ Len(TitleFields) = 4
  /\ IsQuestionNumberLabel(Strip(TitleFields[4]))
  /\ parsed.subject = None

\* C16: for every title with fewer than three fields, the empty title
\* included, the parser returns year, subject and chapter all absent
C16_ShortTitleAllAbsent ==
  (pc = "extracted" /\ Len(TitleFields) < 3) =>
    parsed = [year |-> None, subject |-> None, chapter |-> None]

\* a title of two fields that holds four digits has been parsed
C16_Witness ==
  /\ pc = "extracted"
  /\ Len(TitleFields) = 2
  /\ SearchYear(title) # None
  /\ parsed = [year |-> None, subject |-> None, chapter |-> None]

(***************************************************************************)
(* Properties of the identifiers                                           *)
(***************************************************************************)
Text_UNSPECIFIED == << "U","N","S","P","E","C","I","F","I","E","D" >>

\* no character of the text is a letter or a digit
NothingAlphanumeric(s) == \A i \in 1..Len(s) : ~IsAlnum(s[i])

\* C17 as stated: slugify never returns an empty identifier, and with or
\* without a prefix it returns "UNSPECIFIED" when nothing alphanumeric
\* remains of its input
C17_EmptyGivesUnspecified ==
  pc = "slugified" =>
    /\ slug_result[1] # << >>
    /\ NothingAlphanumeric(slug_args.value) => slug_result[1] = Text_UNSPECIFIED

\* C17, amended: slugify never returns an empty identifier; when nothing
\* alphanumeric remains of its input it returns "UNSPECIFIED" without a
\* prefix, and with a prefix SUB-, CH- or ST- the prefix without its hyphen
C17_EmptyGivesSentinelOrPrefix ==
  pc = "slugified" =>
    /\ slug_result[1] # << >>
    /\ NothingAlphanumeric(slug_args.value) =>
         slug_result[1] = IF slug_args.prefix = << >> THEN Text_UNSPECIFIED
                          ELSE SubSeq(slug_args.prefix, 1, Len(slug_args.prefix) - 1)

\* slugify was called with a prefix and a text of punctuation only
C17_Witness ==
  /\ pc = "slugified"
  /\ slug_args.value # << >>
  /\ NothingAlphanumeric(slug_args.value)
  /\ slug_args.prefix = Text_SUB
  /\ slug_result = Some(<< "S","U","B" >>)

\* an identifier of upper-case letters, digits and single hyphens, with no
\* hyphen at either end
IdentifierSafe(id) ==
  /\ id # << >>
  /\ \A i \in 1..Len(id) : IsUpper(id[i]) \/ IsDigit(id[i]) \/ id[i] = "-"
  /\ id[1] # "-"
  /\ id[Len(id)] # "-"
  /\ \A i \in 1..(Len(id) - 1) : ~(id[i] = "-" /\ id[i + 1] = "-")

RECURSIVE AlnumWordsFrom(_, _)
\* the maximal runs of letters and digits of s, given the run in progress
AlnumWordsFrom(s, word) ==
  IF s = << >> THEN (IF word = << >> THEN << >> ELSE << word >>)
  ELSE IF IsAlnum(Head(s)) THEN AlnumWordsFrom(Tail(s), Append(word, Head(s)))
  ELSE (IF word = << >> THEN << >> ELSE << word >>) \o AlnumWordsFrom(Tail(s), << >>)

\* the maximal runs of letters and digits of s, in upper case
UpperWords(s) == AlnumWordsFrom(Upper(s), << >>)

\* the year of a row as a word of an identifier
YearWords(year) == IF year = None THEN << >> ELSE << IntToStr(year[1]) >>

\* C18: every node identifier ingest produces is identifier-safe: it holds
\* upper-case letters, digits and single hyphens only, no hyphen at either
\* end, and between the hyphens exactly the runs of letters and digits of
\* the texts it is derived from, every run of other characters having
\* become one hyphen
C18_IdentifiersAreSafe ==
  /\ \A i \in 1..Len(subject_nodes) :
       /\ IdentifierSafe(subject_nodes[i].id)
       /\ UpperWords(subject_nodes[i].id)
            = << << "S","U","B" >> >> \o UpperWords(subject_nodes[i].name)
  /\ \A i \in 1..Len(chapter_nodes) :
       /\ IdentifierSafe(chapter_nodes[i].id)
       /\ UpperWords(chapter_nodes[i].id)
            = << << "C","H" >> >> \o UpperWords(chapter_nodes[i].name)
  /\ \A i \in 1..Len(subtopic_nodes) :
       /\ IdentifierSafe(subtopic_nodes[i].id)
       /\ UpperWords(subtopic_nodes[i].id)
            = << << "S","T" >> >> \o UpperWords(subtopic_nodes[i].name)
  /\ \A i \in 1..Len(paper_nodes) :
       /\ IdentifierSafe(paper_nodes[i].id)
       /\ UpperWords(paper_nodes[i].id)
            = << << "P" >> >> \o YearWords(paper_nodes[i].year)
                \o UpperWords(paper_nodes[i].paper_code)
  /\ \A i \in 1..Len(question_nodes) :
       /\ IdentifierSafe(question_nodes[i].id)
       /\ UpperWords(question_nodes[i].id)
            = << << "Q" >> >> \o YearWords(question_nodes[i].year)
                \o UpperWords(question_nodes[i].paper_code)
                \o UpperWords(question_nodes[i].question_no)
  /\ \A i \in 1..Len(option_nodes) :
       /\ IdentifierSafe(option_nodes[i].id)
       /\ \E q \in 1..Len(question_nodes) :
            UpperWords(option_nodes[i].id)
              = UpperWords(question_nodes[q].id)
                  \o << << "O","P","T" >>, IntToStr(option_nodes[i].option_index) >>

\* a record with options was ingested whose subject holds a run of two
\* characters that are neither letters nor digits and whose subtopic holds
\* no letter and no digit
C18_Witness ==
  /\ option_nodes # << >>
  /\ \E i \in 1..Len(subject_nodes) :
       /\ subject_nodes[i].name = Text_a_b
       /\ subject_nodes[i].id = << "S","U","B","-","A","-","B" >>
  /\ \E i \in 1..Len(subtopic_nodes) :
       /\ subtopic_nodes[i].name = Text_qmark
       /\ subtopic_nodes[i].id = << "S","T" >>

(***************************************************************************)
(* Properties of the failure handling                                      *)
(***************************************************************************)
\* the step consumes one more record
RecordConsumed == Len(questions') = Len(questions) + 1

\* paper_code or question_no is absent or blank
MissesIdentifyingField(entry) ==
  IsBlank(entry.paper_code) \/ IsBlank(entry.question_no)

\* the field as the Question row carries it when the record has it
FieldOrUnknown(field) == IF IsBlank(field) THEN Text_UNKNOWN ELSE Strip(field[1])

\* C19 as stated: a record that misses paper_code or question_no is
\* skipped: it adds no Question node, no Option node and no edge, and the
\* run continues
C19_IncompleteRecordSkipped ==
  [][(RecordConsumed /\ MissesIdentifyingField(questions'[Len(questions')])) =>
       /\ question_nodes' = question_nodes
       /\ option_nodes' = option_nodes
       /\ edgeVars' = edgeVars
       /\ pc' = "ingest"]_vars

\* C19, amended: a record that misses paper_code or question_no is
\* ingested with "UNKNOWN" in the place of the missing field: it adds one
\* Question node that carries "UNKNOWN" there, one Option node for each of
\* its options and its edges, and the run continues
C19_IncompleteRecordIngestedAsUnknown ==
  [][(RecordConsumed /\ MissesIdentifyingField(questions'[Len(questions')])) =>
       LET entry == questions'[Len(questions')]
           node  == question_nodes'[Len(question_nodes')]
       IN  /\ Len(question_nodes') = Len(question_nodes) + 1
           /\ node.paper_code = FieldOrUnknown(entry.paper_code)
           /\ node.question_no = FieldOrUnknown(entry.question_no)
           /\ Len(option_nodes') = Len(option_nodes) + Len(OptionsOf(entry))
           /\ Len(question_option_edges')
                = Len(question_option_edges) + Len(OptionsOf(entry))
           /\ EdgesFrom(question_subject_edges', node.id) # {}
           /\ EdgesFrom(question_chapter_edges', node.id) # {}
           /\ EdgesFrom(question_subtopic_edges', node.id) # {}
           /\ EdgesFrom(question_paper_edges', node.id) # {}
           /\ pc' = "ingest"]_vars

\* a record without paper_code and with a blank question_no was ingested,
\* with options, and a second record after it
C19_Witness ==
  /\ Len(questions) = 2
  /\ questions[1].paper_code = None
  /\ questions[1].question_no = Some(Text_blank)
  /\ question_nodes[1].paper_code = Text_UNKNOWN
  /\ question_nodes[1].question_no = Text_UNKNOWN
  /\ option_nodes # << >>
  /\ Len(question_nodes) = 2

\* C20 as stated: when a source file has invalid JSON syntax the error is
\* reported and the run goes on with the remaining files: it has not ended
\* without an export
C20_ParseErrorSkipsFile ==
  error = Some("RuntimeError") => pc \in { "ingest", "exported" }

\* C20, amended: when a source file has invalid JSON syntax main() ends
\* with the error: the step that raises it ingests nothing and writes
\* nothing, and no step follows it, so no record of that file or of a
\* later file is ingested and no table is exported
C20_ParseErrorAbortsRun ==
  [][/\ error' # None =>
          /\ pc' = "aborted"
          /\ output' = << >>
          /\ questions' = questions
          /\ nodeVars' = nodeVars
          /\ edgeVars' = edgeVars
     /\ error # None => vars' = vars]_vars

\* the second file did not parse after records of the first were ingested
C20_Witness ==
  /\ error = Some("RuntimeError")
  /\ pc = "aborted"
  /\ files_read = 1
  /\ questions # << >>
  /\ output = << >>

(***************************************************************************)
(* Properties of the export                                                *)
(***************************************************************************)
\* number of tables main() writes
TableCount == 13

\* C21: every table write happens after the last record of the last source
\* file has been ingested: the step that writes leaves the loop with all
\* tables written, nothing is read or ingested once a table exists, and a
\* run that aborts (missing input directory, file that does not parse)
\* has written no table
C21_TablesAfterLastRecordOrNone ==
  [][/\ output' # output =>
          /\ output = << >>
          /\ Len(output') = TableCount
          /\ pc' = "exported"
          /\ questions' = questions
     /\ output # << >> =>
          /\ questions' = questions
          /\ files_read' = files_read
          /\ nodeVars' = nodeVars
          /\ edgeVars' = edgeVars
     /\ pc' = "aborted" => output' = << >>]_vars

\* both files were read, their records ingested and the tables written
C21_Witness ==
  /\ pc = "exported"
  /\ files_read = MaxFiles
  /\ Len(questions) = MaxIngest
  /\ Len(output) = TableCount
  /\ output[1].rows = question_nodes
  /\ error = None

\* the rows of a table are in ascending order of (start id, end id)
RowsAscending(rows) ==
  \A i, j \in 1..Len(rows) :
    i < j => ~PairLess(<< rows[j].start, rows[j].end >>,
                       << rows[i].start, rows[i].end >>)

\* the names of the edge tables
EdgeTableFiles ==
  { "question_subject.csv", "question_chapter.csv", "question_subtopic.csv",
    "chapter_subject.csv", "subtopic_chapter.csv", "question_paper.csv",
    "question_option.csv" }

\* C22: every exported edge table, the Question-Option table included,
\* lists its rows in ascending order of (start id, end id)
C22_EdgeTablesSorted ==
  \A t \in 1..Len(output) :
    output[t].file \in EdgeTableFiles => RowsAscending(output[t].rows)

(***************************************************************************)
(* Properties of the snapshot                                              *)
(***************************************************************************)
\* the subject of the record is a spelling the canonical mapping knows
KnownSpelling(entry) ==
  /\ ~IsBlank(entry.subject)
  /\ TitleCase(Strip(entry.subject[1])) \in SubjectMappingKeys

\* the Subject nodes the two records are linked to
SubjectNodesOf(e1, e2) ==
  { i \in 1..Len(subject_nodes) :
      subject_nodes[i].id \in { Derived[e1].subject_id, Derived[e2].subject_id } }

\* C23: two ingested records whose subjects are spellings of one subject,
\* both known to the canonical mapping, produce exactly one Subject node
C23_KnownSpellingsCollapse ==
  \A i, j \in 1..Len(questions) :
    ( /\ KnownSpelling(questions[i])
      /\ KnownSpelling(questions[j])
      /\ normalize_subject(questions[i].subject) = normalize_subject(questions[j].subject) )
    => Cardinality(SubjectNodesOf(questions[i], questions[j])) = 1

\* C24: two runs over the same source files produce the same snapshot and
\* the same output tables, rows in the same order, whatever the order in
\* which the directory lists the files in each run
C24_RunsAgree ==
  (pc = "exported" /\ previous # None) =>
    /\ previous[1].nodes = nodeVars
    /\ previous[1].edges = edgeVars
    /\ previous[1].output = output

\* the second run ended; its directory listed the files in another order
\* than in the first run, and the files hold two subjects
C24_Witness ==
  /\ pc = "exported"
  /\ previous # None
  /\ previous[1].listing # listing
  /\ Len(subject_nodes) = 2
  /\ Len(output) = TableCount
  /\ previous[1].output = output

KeepsRows(before, after) ==
  Len(after) >= Len(before) /\ SubSeq(after, 1, Len(before)) = before

\* every id occurs once in the table
UniqueIds(table) ==
  \A i, j \in 1..Len(table) : table[i].id = table[j].id => i = j

PaperIdOf(entry) == Derived[entry].paper_id

\* C26: Subject, Chapter, Subtopic and Paper nodes are created on the first
\* encounter of their id and never duplicated or modified afterwards: a
\* step keeps the rows of each table, each id occurs once, and its row
\* carries the name (or paper_code and year) of the first record that
\* produced the id
C26_NodesCreatedOnceAndKept ==
  [][/\ KeepsRows(subject_nodes, subject_nodes')
     /\ KeepsRows(chapter_nodes, chapter_nodes')
     /\ KeepsRows(subtopic_nodes, subtopic_nodes')
     /\ KeepsRows(paper_nodes, paper_nodes')
     /\ UniqueIds(subject_nodes') /\ UniqueIds(chapter_nodes')
     /\ UniqueIds(subtopic_nodes') /\ UniqueIds(paper_nodes')
     /\ \A i \in 1..Len(questions') :
          LET e == questions'[i]
              earlier == { questions'[k] : k \in 1..(i - 1) }
          IN  /\ (\A f \in earlier : Derived[f].subject_id # Derived[e].subject_id)
                   => [id |-> Derived[e].subject_id, name |-> SubjectNameOf(e)]
                        \in Range(subject_nodes')
              /\ (\A f \in earlier : ChapterIdOf(f) # ChapterIdOf(e))
                   => [id |-> ChapterIdOf(e), name |-> ChapterNameOf(e)]
                        \in Range(chapter_nodes')
              /\ (\A f \in earlier : SubtopicIdOf(f) # SubtopicIdOf(e))
                   => [id |-> SubtopicIdOf(e), name |-> SubtopicNameOf(e)]
                        \in Range(subtopic_nodes')
              /\ (\A f \in earlier : PaperIdOf(f) # PaperIdOf(e))
                   => [id |-> PaperIdOf(e), paper_code |-> PaperCodeOf(e),
                       year |-> YearColumn(e)] \in Range(paper_nodes')
    ]_vars

\* a record with subject "OS" was ingested after one with subject "os":
\* one Subject node, named "os"
C26_Witness ==
  /\ Len(questions) = 2
  /\ questions[1].subject = Some(Text_os)
  /\ questions[2].subject = Some(Text_OS)
  /\ Len(subject_nodes) = 1
  /\ subject_nodes[1].name = Text_os
  /\ Len(paper_nodes) = 1

\* the ids of the rows of a node table
NodeIds(table) == { table[i].id : i \in 1..Len(table) }

\* every edge of the set starts and ends at a node of the two tables
EdgesWithin(edges, starts, ends) ==
  \A e \in edges : e[1] \in NodeIds(starts) /\ e[2] \in NodeIds(ends)

\* C27: the start and the end id of every edge of every edge collection is
\* the id of a node of the node table of the corresponding type
C27_NoDanglingEdge ==
  /\ EdgesWithin(question_subject_edges, question_nodes, subject_nodes)
  /\ EdgesWithin(question_chapter_edges, question_nodes, chapter_nodes)
  /\ EdgesWithin(question_subtopic_edges, question_nodes, subtopic_nodes)
  /\ EdgesWithin(chapter_subject_edges, chapter_nodes, subject_nodes)
  /\ EdgesWithin(subtopic_chapter_edges, subtopic_nodes, chapter_nodes)
  /\ EdgesWithin(question_paper_edges, question_nodes, paper_nodes)
  /\ \A i \in 1..Len(question_option_edges) :
       /\ question_option_edges[i].start \in NodeIds(question_nodes)
       /\ question_option_edges[i].end \in NodeIds(option_nodes)

\* two records with different subjects, chapters and papers were ingested,
\* one of them with options
C27_Witness ==
  /\ Len(questions) = 2
  /\ Len(subject_nodes) = 2
  /\ Len(chapter_nodes) = 2
  /\ Len(paper_nodes) = 2
  /\ Cardinality(chapter_subject_edges) = 2
  /\ Cardinality(question_paper_edges) = 2
  /\ question_option_edges # << >>

\* C28: every index detect_correct_option returns is a zero-based position
\* of options: 0 <= index < number of options
C28_IndicesWithinOptions ==
  pc = "resolved" =>
    \A index \in correct_indices : 0 <= index /\ index < Len(options)

\* the answer names the letters A, D and C, of which two options have A only
C28_Witness ==
  /\ pc = "resolved"
  /\ Len(options) = 2
  /\ correct_answer = Some(<< "A"," ","a","n","d"," ","C" >>)
  /\ correct_indices = {0}

\* C29: two records whose keys (year, paper_code, question_no) differ after
\* trimming and UNKNOWN defaulting never get the same question id
C29_DifferentKeysDifferentIds ==
  \A i, j \in 1..Len(question_nodes) :
    NodeKey(question_nodes[i]) # NodeKey(question_nodes[j])
      => question_nodes[i].id # question_nodes[j].id

\* the label trimmed and title-cased
Titled(l) == TitleCase(Strip(l))

\* the canonical names of the two tables
CanonicalSubjects == { m[2] : m \in subject_mappings }
CanonicalChapters == { m[2] : m \in chapter_mappings }

\* normalizing the results of the call again gives the same results
NormalizedAgain ==
  /\ normalize_subject(normalized.subject) = normalized.subject
  /\ normalize_chapter(normalized.chapter) = normalized.chapter

\* a canonical name is returned as it is
CanonicalFixed ==
  /\ (label # None /\ label[1] \in CanonicalSubjects) => normalized.subject = label
  /\ (label # None /\ label[1] \in CanonicalChapters) => normalized.chapter = label

\* C30: the two normalizers are idempotent, every canonical name
\* of the tables is a fixed point, and every unmapped label is returned
\* trimmed and title-cased
C30_IdempotentAndUnmappedTitled ==
  pc = "normalized" =>
    /\ NormalizedAgain
    /\ CanonicalFixed
    /\ (label # None /\ Titled(label[1]) \notin SubjectMappingKeys)
         => normalized.subject = Some(Titled(label[1]))
    /\ (label # None /\ Titled(label[1]) \notin ChapterMappingKeys)
         => normalized.chapter = Some(Titled(label[1]))

====
